---- MODULE Spec2Model ----
(***************************************************************************)
(* Invoice QC service: the rule engine (invoice_qc/validator.py), the data *)
(* model it consumes (invoice_qc/models.py) and the entry points that call *)
(* it (validate_invoices, the API's module-level validator).               *)
(*                                                                         *)
(* Representation.                                                         *)
(*  - A Python str is a sequence of one-character strings; Python's None   *)
(*    in a string field is the sequence None below, whose single element   *)
(*    is not a character, so it differs from every str including "".       *)
(*  - An Optional[float] amount is <<>> (None) or <<c>>: the binary64    *)
(*    nearest to c cents.  The rules compute on binary64 values, modelled *)
(*    exactly (section Amounts).                                           *)
(*  - A message is the sequence of its text fragments, blanks included, so *)
(*    that str.split() is computed and not assumed.                        *)
(***************************************************************************)
EXTENDS Integers, Sequences, FiniteSets, TLC

VARIABLES
    seen_invoices,  \* validator instance -> its seen_invoices set
    self,           \* the validator instance the current call runs on
    invoices,       \* argument of the current validate_batch call
    idx,            \* position of the for loop over invoices (1-based)
    results,        \* local list of validate_batch
    error_counts,   \* local dict of validate_batch
    report,         \* value returned by the last completed call
    previous,       \* what the caller kept of the preceding call (its report and
                    \* the validator that served it) when it passes the same list
    pc,             \* "idle" | "loop" | "done" | "raised"
    now,            \* wall clock read by datetime.now()
    hash_order,     \* iteration order of the KNOWN_CURRENCIES set in this process
    requests,       \* API request -> the state of its validate_json coroutine
    extractor       \* the locals of the extraction call in progress

vars == <<seen_invoices, self, invoices, idx, results, error_counts, report,
          previous, pc, now, hash_order, requests, extractor>>

\* what the validator's own calls leave alone
apart == <<requests, extractor>>

--------------------------------------------------------------------------
(* Bounds of the model *)

MaxBatch == 2

MaxClock == 1

--------------------------------------------------------------------------
(* Strings *)

None == <<"None">>

Whitespace == {" ", "\t", "\n"}

Digits == <<"0", "1", "2", "3", "4", "5", "6", "7", "8", "9">>

\* Python truthiness of an Optional[str]: neither None nor "".
Truthy(s) == s # None /\ s # <<>>

RECURSIVE LStrip(_)
LStrip(s) ==
    IF s # <<>> /\ Head(s) \in Whitespace THEN LStrip(Tail(s)) ELSE s

RECURSIVE RStrip(_)
RStrip(s) ==
    IF s # <<>> /\ s[Len(s)] \in Whitespace
    THEN RStrip(SubSeq(s, 1, Len(s) - 1))
    ELSE s

\* str.strip()
Strip(s) == RStrip(LStrip(s))

\* int(c) of one decimal digit, -1 when c is no ASCII digit
DigitValue(c) ==
    IF \E d \in 1..10 : Digits[d] = c
    THEN (CHOOSE d \in 1..10 : Digits[d] = c) - 1
    ELSE -1

IsDigits(s) == \A i \in 1..Len(s) : DigitValue(s[i]) >= 0

RECURSIVE ToInt(_)
ToInt(s) ==
    IF s = <<>> THEN 0
    ELSE 10 * ToInt(SubSeq(s, 1, Len(s) - 1)) + DigitValue(s[Len(s)])

--------------------------------------------------------------------------
(* Dates: datetime.fromisoformat on a 10-character string *)

IsLeap(y) == (y % 4 = 0 /\ y % 100 # 0) \/ y % 400 = 0

DaysInMonth(y, m) ==
    IF m = 2 THEN (IF IsLeap(y) THEN 29 ELSE 28)
    ELSE IF m \in {4, 6, 9, 11} THEN 30 ELSE 31

\* <<year, month, day>> of a string already known to be NNNN-NN-NN
DateFields(s) ==
    <<ToInt(SubSeq(s, 1, 4)), ToInt(SubSeq(s, 6, 7)), ToInt(SubSeq(s, 9, 10))>>

\* datetime.fromisoformat(s) returns (does not raise) for a 10-character s
FromIsoFormatOk(s) ==
    /\ Len(s) = 10
    /\ IsDigits(SubSeq(s, 1, 4)) /\ s[5] = "-"
    /\ IsDigits(SubSeq(s, 6, 7)) /\ s[8] = "-"
    /\ IsDigits(SubSeq(s, 9, 10))
    /\ LET f == DateFields(s)
       IN  /\ f[1] >= 1
           /\ f[2] \in 1..12
           /\ f[3] >= 1 /\ f[3] <= DaysInMonth(f[1], f[2])

\* a check of the shape NNNN-NN-NN alone: a mutant of IsValidDate
IsValidDateShape(date_str) ==
    /\ Truthy(date_str)
    /\ Len(date_str) = 10 /\ date_str[5] = "-" /\ date_str[8] = "-"
    /\ IsDigits(SubSeq(date_str, 1, 4))
    /\ IsDigits(SubSeq(date_str, 6, 7))
    /\ IsDigits(SubSeq(date_str, 9, 10))

\* InvoiceValidator._is_valid_date
IsValidDate(date_str) ==
    IF ~Truthy(date_str) THEN FALSE
    ELSE IF Len(date_str) = 10 /\ date_str[5] = "-" /\ date_str[8] = "-"
         THEN FromIsoFormatOk(date_str)
         ELSE FALSE

\* a comparison that holds for equal dates too: a mutant of DateBefore
DateNotAfter(a, b) ==
    LET x == DateFields(a)
        y == DateFields(b)
    IN  \/ x[1] < y[1]
        \/ x[1] = y[1] /\ x[2] < y[2]
        \/ x[1] = y[1] /\ x[2] = y[2] /\ x[3] <= y[3]

\* datetime < datetime on two parsed dates
DateBefore(a, b) ==
    LET x == DateFields(a)
        y == DateFields(b)
    IN  \/ x[1] < y[1]
        \/ x[1] = y[1] /\ x[2] < y[2]
        \/ x[1] = y[1] /\ x[2] = y[2] /\ x[3] < y[3]

--------------------------------------------------------------------------
(* Amounts.  A float is written <<c, e>> and is the real number            *)
(* (c + e / 2^ErrBits) / 100: c is a count of cents and e the distance of   *)
(* the binary64 value from the cent grid.  The operations below are those   *)
(* of IEEE-754 binary64 with round-to-nearest-even, exact for magnitudes    *)
(* from 2^-8 up to 128; remainders are taken modulo 100 * 2^n so that no    *)
(* 64-bit mantissa is ever written out.                                     *)

NoAmount == <<>>

\* an amount field holding the float nearest to units.cents
Amt(units, cents) == <<units * 100 + cents>>

Abs(n) == IF n < 0 THEN -n ELSE n

Sign(n) == IF n > 0 THEN 1 ELSE IF n < 0 THEN -1 ELSE 0

\* binary digits kept of the distance from the cent grid
ErrBits == 60

\* explicit mantissa bits of a binary64
MantissaBits == 52

Pow2(n) == 2 ^ n

\* 2^n modulo m, twenty binary places at a time
RECURSIVE Pow2Mod(_, _)
Pow2Mod(n, m) ==
    IF n <= 20 THEN (2 ^ n) % m
    ELSE (((2 ^ 20) % m) * Pow2Mod(n - 20, m)) % m

\* (C + E / 2^ErrBits) / scale >= 2^k, for C > 0
AtLeastPow2(C, E, scale, k) ==
    IF k >= 0
    THEN C > scale * Pow2(k) \/ (C = scale * Pow2(k) /\ E >= 0)
    ELSE C * Pow2(-k) > scale \/ (C * Pow2(-k) = scale /\ E >= 0)

\* the binary exponent of (C + E / 2^ErrBits) / scale, for C > 0
Exponent(C, E, scale) ==
    CHOOSE k \in -8..7 :
        AtLeastPow2(C, E, scale, k) /\ ~AtLeastPow2(C, E, scale, k + 1)

\* (C * 2^ErrBits + E) modulo m * 2^shift, where q + shift = ErrBits
Remainder(C, E, q, shift, m) ==
    (Pow2(shift) * (((C % m) * Pow2Mod(q, m)) % m) + E) % (m * Pow2(shift))

\* round-to-nearest-even on the grid of ulp: rem is the distance of the exact
\* value above the grid, odd whether the grid point below has an odd mantissa,
\* sticky the sign of what the exact value has beyond E
RoundsUp(sticky, ulp, rem, odd) ==
    \/ 2 * rem > ulp
    \/ 2 * rem = ulp /\ (sticky > 0 \/ (sticky = 0 /\ odd))

RoundToUlp(C, E, sticky, ulp, rem, odd) ==
    <<C, IF RoundsUp(sticky, ulp, rem, odd) THEN E - rem + ulp ELSE E - rem>>

\* the grid of a value whose mantissa ends q binary places after the point
RoundAtShift(C, E, sticky, scale, q, shift) ==
    CHOOSE r \in { RoundToUlp(C, E, sticky, ulp, rem, odd) :
                      ulp \in {scale * Pow2(shift)},
                      rem \in {Remainder(C, E, q, shift, scale)},
                      odd \in {Remainder(C, E, q, shift, 2 * scale)
                                  >= scale * Pow2(shift)} } : TRUE

RoundAtPlaces(C, E, sticky, scale, q) ==
    RoundAtShift(C, E, sticky, scale, q, ErrBits - q)

\* the binary64 nearest to (C + E / 2^ErrBits) / scale for C > 0
RoundPositive(C, E, sticky, scale) ==
    CHOOSE r \in { RoundAtPlaces(C, E, sticky, scale, q) :
                      q \in {MantissaBits - Exponent(C, E, scale)} } : TRUE

\* round-to-nearest-even of an exact result given by its two numbers
RoundExact(C, E, sticky, scale) ==
    IF C = 0 THEN <<0, E>>
    ELSE IF C > 0 THEN RoundPositive(C, E, sticky, scale)
    ELSE LET r == RoundPositive(-C, -E, -sticky, scale) IN <<-r[1], -r[2]>>

\* round-to-nearest-even of an exact result; the operands are computed once
Round(C, E, sticky, scale) ==
    CHOOSE r \in { RoundExact(c, e, sticky, scale) : c \in {C}, e \in {E} } : TRUE

\* the float an amount field holds
Float(amount) == Round(amount[1], 0, 0, 100)

\* float + float, float - float, abs(float), float > float
FAdd(x, y) == Round(x[1] + y[1], x[2] + y[2], 0, 100)

FNeg(x) == <<-x[1], -x[2]>>

FSub(x, y) == FAdd(x, FNeg(y))

FAbs(x) == IF x[1] < 0 \/ (x[1] = 0 /\ x[2] < 0) THEN FNeg(x) ELSE x

FGreater(x, y) == x[1] > y[1] \/ (x[1] = y[1] /\ x[2] > y[2])

\* x * 0.01, as a float counted in 1/10000 instead of 1/100
TimesHundredth(x) ==
    LET hundredth == Float(<<1>>)
    IN  Round(x[1], x[2] + x[1] * hundredth[2], Sign(x[2]) * Sign(hundredth[2]),
              10000)

\* a float counted in 1/100, counted in 1/10000
InTenThousandths(x) == <<100 * x[1], 100 * x[2]>>

\* `sum(item.line_total for item in invoice.line_items)`: the int 0, then
\* each float added in turn (for up to two items the compensated sum of
\* newer interpreters is the same float)
RECURSIVE SumFrom(_, _)
SumFrom(total, items) ==
    IF items = <<>> THEN total
    ELSE SumFrom(FAdd(total, Float(<<Head(items).line_total>>)), Tail(items))

SumLineTotals(items) == SumFrom(<<0, 0>>, items)

--------------------------------------------------------------------------
(* Messages *)

\* " ".join(words): the text of a message whose words are given
RECURSIVE Join(_)
Join(words) ==
    IF Len(words) <= 1 THEN words
    ELSE <<words[1], " ">> \o Join(Tail(words))

\* str.split(): the maximal runs of non-blank fragments, each run joined
RECURSIVE SplitFrom(_, _)
SplitFrom(text, word) ==
    IF text = <<>> THEN (IF word = "" THEN <<>> ELSE <<word>>)
    ELSE IF Head(text) \in Whitespace
         THEN (IF word = "" THEN <<>> ELSE <<word>>) \o SplitFrom(Tail(text), "")
         ELSE SplitFrom(Tail(text), word \o Head(text))

Split(text) == SplitFrom(text, "")

ValidationError(rule, words, severity) ==
    [rule |-> rule, message |-> Join(words), severity |-> severity]

--------------------------------------------------------------------------
(* The rule engine: InvoiceValidator *)

\* InvoiceValidator.KNOWN_CURRENCIES, each code as a str
KNOWN_CURRENCIES ==
    { <<"E", "U", "R">>, <<"U", "S", "D">>, <<"G", "B", "P">>,
      <<"I", "N", "R">>, <<"J", "P", "Y">>, <<"C", "H", "F">> }

\* a test that does not trim: a mutant of MissingOrEmpty
MissingUntrimmed(value) == ~Truthy(value)

\* `not value or value.strip() == ""`
MissingOrEmpty(value) == ~Truthy(value) \/ Strip(value) = <<>>

CompletenessError(field) ==
    ValidationError("completeness", <<field, "is", "missing", "or", "empty">>, "error")

\* InvoiceValidator._check_completeness
CheckCompleteness(invoice) ==
    (IF MissingOrEmpty(invoice.invoice_number)
     THEN <<CompletenessError("invoice_number")>> ELSE <<>>)
    \o (IF MissingOrEmpty(invoice.invoice_date)
        THEN <<CompletenessError("invoice_date")>> ELSE <<>>)
    \o (IF MissingOrEmpty(invoice.buyer_name)
        THEN <<CompletenessError("buyer_name")>> ELSE <<>>)
    \o (IF MissingOrEmpty(invoice.seller_name)
        THEN <<CompletenessError("seller_name")>> ELSE <<>>)
    \o (IF MissingOrEmpty(invoice.currency)
        THEN <<CompletenessError("currency")>> ELSE <<>>)

Sentinels == { <<"s", "o", "f", "o", "r", "t">>, <<"A", "S", "A", "P">> }

\* Rule 5 for one date field
DateFormatErrors(date_field, date_value) ==
    IF Truthy(date_value) /\ date_value \notin Sentinels /\ ~IsValidDate(date_value)
    THEN <<ValidationError("format",
             <<date_field, "has", "invalid", "format:", ToString(date_value)>>,
             "error")>>
    ELSE <<>>

\* Rule 6; the message prints the set, in this process's iteration order
CurrencyErrors(invoice) ==
    IF Truthy(invoice.currency) /\ invoice.currency \notin KNOWN_CURRENCIES
    THEN <<ValidationError("format",
             <<"currency", ToString(invoice.currency), "not", "in", "known",
               "set", ToString(hash_order)>>,
             "warning")>>
    ELSE <<>>

\* Rule 7 for one amount field
NegativeErrors(amount_field, amount_value) ==
    IF amount_value # NoAmount /\ FGreater(<<0, 0>>, Float(amount_value))
    THEN <<ValidationError("format",
             <<amount_field, "is", "negative:", ToString(amount_value[1])>>,
             "error")>>
    ELSE <<>>

\* InvoiceValidator._check_formats
CheckFormats(invoice) ==
    DateFormatErrors("invoice_date", invoice.invoice_date)
    \o DateFormatErrors("due_date", invoice.due_date)
    \o DateFormatErrors("delivery_date", invoice.delivery_date)
    \o CurrencyErrors(invoice)
    \o NegativeErrors("net_total", invoice.net_total)
    \o NegativeErrors("tax_amount", invoice.tax_amount)
    \o NegativeErrors("gross_total", invoice.gross_total)

\* Rule 8 with the tolerance taken without its sign: a mutant of
\* LineSumErrors
LineSumErrorsOfMagnitude(invoice) ==
    IF invoice.line_items # <<>> /\ invoice.net_total # NoAmount
    THEN LET line_items_sum == SumLineTotals(invoice.line_items)
             net_total == Float(invoice.net_total)
             tolerance == FAbs(TimesHundredth(net_total))
         IN  IF FGreater(InTenThousandths(FAbs(FSub(line_items_sum, net_total))),
                         tolerance)
             THEN <<ValidationError("business_rule",
                      <<"line_items", "sum", ToString(line_items_sum[1]), "does",
                        "not", "match", "net_total",
                        ToString(invoice.net_total[1])>>,
                      "error")>>
             ELSE <<>>
    ELSE <<>>

\* Rule 8: line items sum matches net total
LineSumErrors(invoice) ==
    IF invoice.line_items # <<>> /\ invoice.net_total # NoAmount
    THEN LET line_items_sum == SumLineTotals(invoice.line_items)
             net_total == Float(invoice.net_total)
             tolerance == TimesHundredth(net_total)
         IN  IF FGreater(InTenThousandths(FAbs(FSub(line_items_sum, net_total))),
                         tolerance)
             THEN <<ValidationError("business_rule",
                      <<"line_items", "sum", ToString(line_items_sum[1]), "does",
                        "not", "match", "net_total",
                        ToString(invoice.net_total[1])>>,
                      "error")>>
             ELSE <<>>
    ELSE <<>>

\* Rule 9: tax calculation validation
TaxErrors(invoice) ==
    IF /\ invoice.net_total # NoAmount
       /\ invoice.tax_amount # NoAmount
       /\ invoice.gross_total # NoAmount
    THEN LET expected_gross ==
                 FAdd(Float(invoice.net_total), Float(invoice.tax_amount))
             tolerance == Float(<<2>>)
         IN  IF FGreater(FAbs(FSub(expected_gross, Float(invoice.gross_total))),
                         tolerance)
             THEN <<ValidationError("business_rule",
                      <<"tax", "calculation", "mismatch:", "net",
                        ToString(invoice.net_total[1]), "+", "tax",
                        ToString(invoice.tax_amount[1]), "!=", "gross",
                        ToString(invoice.gross_total[1])>>,
                      "error")>>
             ELSE <<>>
    ELSE <<>>

\* Rule 10: due date logical validation
DueDateErrors(invoice) ==
    IF /\ Truthy(invoice.invoice_date) /\ Truthy(invoice.due_date)
       /\ IsValidDate(invoice.invoice_date) /\ IsValidDate(invoice.due_date)
       /\ DateBefore(invoice.due_date, invoice.invoice_date)
    THEN <<ValidationError("business_rule",
             <<"due_date", ToString(invoice.due_date), "is", "before",
               "invoice_date", ToString(invoice.invoice_date)>>,
             "error")>>
    ELSE <<>>

\* InvoiceValidator._check_business_rules
CheckBusinessRules(invoice) ==
    LineSumErrors(invoice) \o TaxErrors(invoice) \o DueDateErrors(invoice)

\* a key made of the invoice number alone: a mutant of InvoiceKey
InvoiceKeyOfNumber(invoice) == invoice.invoice_number

\* f"{invoice_number}|{seller_name}|{invoice_date}"
InvoiceKey(invoice) ==
    invoice.invoice_number \o <<"|">> \o invoice.seller_name \o <<"|">>
        \o invoice.invoice_date

\* Rule 12: totals should not be zero
ZeroTotalErrors(invoice) ==
    IF invoice.gross_total # NoAmount /\ Float(invoice.gross_total) = <<0, 0>>
    THEN <<ValidationError("anomaly",
             <<"gross_total", "is", "zero,", "likely", "extraction", "error">>,
             "warning")>>
    ELSE <<>>

\* Rule 11 that forgets to record the key: a mutant of CheckAnomalies
CheckAnomaliesNoInsert(invoice, seen) ==
    [errors |-> ZeroTotalErrors(invoice), seen |-> seen]

\* InvoiceValidator._check_anomalies: the errors, and seen_invoices afterwards
CheckAnomalies(invoice, seen) ==
    IF /\ Truthy(invoice.invoice_number)
       /\ Truthy(invoice.seller_name)
       /\ Truthy(invoice.invoice_date)
    THEN IF InvoiceKey(invoice) \in seen
         THEN [errors |->
                  <<ValidationError("duplicate",
                      <<"duplicate", "invoice", "detected:",
                        ToString(invoice.invoice_number)>>,
                      "error")>>
                  \o ZeroTotalErrors(invoice),
               seen |-> seen]
         ELSE [errors |-> ZeroTotalErrors(invoice),
               seen |-> seen \cup {InvoiceKey(invoice)}]
    ELSE [errors |-> ZeroTotalErrors(invoice), seen |-> seen]

\* the category order, but stopping at the first category that reports:
\* a mutant of CollectErrors
CollectErrorsShortCircuit(completeness, formats, business, anomalies) ==
    IF completeness # <<>> THEN completeness
    ELSE IF formats # <<>> THEN formats
    ELSE IF business # <<>> THEN business
    ELSE anomalies

\* the four errors.extend calls of validate_invoice, in their order
CollectErrors(completeness, formats, business, anomalies) ==
    completeness \o formats \o business \o anomalies

\* validity that overlooks warnings: a mutant of IsValid
IsValidIgnoringWarnings(errors) ==
    \A i \in 1..Len(errors) : errors[i].severity # "error"

\* `is_valid=len(errors) == 0`
IsValid(errors) == Len(errors) = 0

UNKNOWN == <<"U", "N", "K", "N", "O", "W", "N">>

\* an id stamped with the clock when the number is absent: a mutant of InvoiceId
InvoiceIdStamped(invoice) ==
    IF Truthy(invoice.invoice_number) THEN invoice.invoice_number
    ELSE UNKNOWN \o <<ToString(now)>>

\* `invoice.invoice_number or "UNKNOWN"`
InvoiceId(invoice) ==
    IF Truthy(invoice.invoice_number) THEN invoice.invoice_number ELSE UNKNOWN

\* InvoiceValidator.validate_invoice: the result, and seen_invoices afterwards
ValidateInvoice(invoice, seen) ==
    LET anomalies == CheckAnomalies(invoice, seen)
        errors == CollectErrors(CheckCompleteness(invoice), CheckFormats(invoice),
                                CheckBusinessRules(invoice), anomalies.errors)
    IN  [result |-> [invoice_id |-> InvoiceId(invoice),
                     source_file |-> invoice.source_file,
                     is_valid |-> IsValid(errors),
                     errors |-> errors],
         seen |-> anomalies.seen]

\* an invoice whose missing number has been filled in by the validator: a
\* mutant of InvoiceAfter
InvoiceAfterFilled(invoice) ==
    [invoice EXCEPT !.invoice_number = InvoiceId(invoice)]

\* the invoice object after validate_invoice: neither it nor the four
\* checks assign to an attribute of the invoice or of its line items
InvoiceAfter(invoice) == invoice

\* a key made of the rule alone: a mutant of ErrorKey
ErrorKeyRuleOnly(error) == error.rule \o ":"

\* f"{error.rule}:{error.message.split()[0]}"
ErrorKey(error) == error.rule \o ":" \o Split(error.message)[1]

\* `error_counts[error_key] = error_counts.get(error_key, 0) + 1`
Increment(counts, key) ==
    [k \in DOMAIN counts \cup {key} |->
        IF k = key
        THEN (IF key \in DOMAIN counts THEN counts[key] ELSE 0) + 1
        ELSE counts[k]]

\* the inner for loop of validate_batch over result.errors
RECURSIVE CountErrors(_, _)
CountErrors(counts, errors) ==
    IF errors = <<>> THEN counts
    ELSE CountErrors(Increment(counts, ErrorKey(Head(errors))), Tail(errors))

\* `sum(1 for r in results if r.is_valid)`
RECURSIVE ValidCount(_)
ValidCount(rs) ==
    IF rs = <<>> THEN 0
    ELSE (IF Head(rs).is_valid THEN 1 ELSE 0) + ValidCount(Tail(rs))

\* an invalid count that counts error-severity results only: a mutant of
\* InvalidCount
InvalidCountErrorsOnly(rs, valid_count) ==
    Cardinality({i \in 1..Len(rs) :
        \E j \in 1..Len(rs[i].errors) : rs[i].errors[j].severity = "error"})

\* `invalid_count = len(results) - valid_count`
InvalidCount(rs, valid_count) == Len(rs) - valid_count

\* ValidationSummary(...) of validate_batch
Summary(batch, rs, counts) ==
    LET valid_count == ValidCount(rs)
    IN  [total_invoices |-> Len(batch),
         valid_invoices |-> valid_count,
         invalid_invoices |-> InvalidCount(rs, valid_count),
         error_counts |-> counts]

\* ValidationReport(summary=..., results=...), timestamp from datetime.now()
ValidationReport(summary, rs) ==
    [summary |-> summary, results |-> rs, timestamp |-> now]

\* Exceptions.  Each operator below tells whether a statement of the rule
\* engine raises on the given value, the guard the code puts before the
\* raising operation included.

\* None.strip(): AttributeError
StripRaises(value) == value = None

\* the completeness test without its `not value or` guard: a mutant of
\* MissingOrEmptyRaises
MissingOrEmptyRaisesUnguarded(value) == StripRaises(value)

\* `not value or value.strip() == ""`: strip runs on a truthy value only
MissingOrEmptyRaises(value) == Truthy(value) /\ StripRaises(value)

CheckCompletenessRaises(invoice) ==
    \/ MissingOrEmptyRaises(invoice.invoice_number)
    \/ MissingOrEmptyRaises(invoice.invoice_date)
    \/ MissingOrEmptyRaises(invoice.buyer_name)
    \/ MissingOrEmptyRaises(invoice.seller_name)
    \/ MissingOrEmptyRaises(invoice.currency)

\* None < 0, None * 0.01, None + x: TypeError
ArithmeticRaises(amount) == amount = NoAmount

\* `amount_value is not None and amount_value < 0`
NegativeRaises(amount) == amount # NoAmount /\ ArithmeticRaises(amount)

\* the date checks of rules 5 and 10 call fromisoformat inside try/except
\* and index date_str only after len(date_str) == 10
CheckFormatsRaises(invoice) ==
    \/ NegativeRaises(invoice.net_total)
    \/ NegativeRaises(invoice.tax_amount)
    \/ NegativeRaises(invoice.gross_total)

\* rules 8 and 9 compute only behind their `is not None` tests
CheckBusinessRulesRaises(invoice) ==
    \/ /\ invoice.line_items # <<>> /\ invoice.net_total # NoAmount
       /\ ArithmeticRaises(invoice.net_total)
    \/ /\ invoice.net_total # NoAmount
       /\ invoice.tax_amount # NoAmount
       /\ invoice.gross_total # NoAmount
       /\ \/ ArithmeticRaises(invoice.net_total)
          \/ ArithmeticRaises(invoice.tax_amount)
          \/ ArithmeticRaises(invoice.gross_total)

\* `invoice.gross_total is not None and invoice.gross_total == 0`
CheckAnomaliesRaises(invoice) == FALSE

\* validate_invoice lets an exception of one of its four checks through
ValidateInvoiceRaises(invoice) ==
    \/ CheckCompletenessRaises(invoice)
    \/ CheckFormatsRaises(invoice)
    \/ CheckBusinessRulesRaises(invoice)
    \/ CheckAnomaliesRaises(invoice)

\* `error.message.split()[0]`: IndexError on a message without a word
ErrorKeyRaises(error) == Split(error.message) = <<>>

CountErrorsRaises(errors) == \E j \in 1..Len(errors) : ErrorKeyRaises(errors[j])

\* a list that grows at the front: a mutant of AppendResult
PrependResult(rs, result) == <<result>> \o rs

\* `results.append(result)`
AppendResult(rs, result) == Append(rs, result)

\* a reset that keeps the set: a mutant of ClearSeen
KeepSeen(seen) == seen

\* `self.seen_invoices.clear()`
ClearSeen(seen) == {}

\* InvoiceValidator.__init__: `self.seen_invoices = set()`
NewSeen == {}

--------------------------------------------------------------------------
(* Inputs: the Invoice records the entry points are given.  Only the fields *)
(* the validator reads are kept.                                            *)

Date0109 == <<"2", "0", "2", "4", "-", "0", "1", "-", "0", "9">>

Date0110 == <<"2", "0", "2", "4", "-", "0", "1", "-", "1", "0">>

DateBadMonth == <<"2", "0", "2", "4", "-", "1", "3", "-", "0", "1">>

EUR == <<"E", "U", "R">>

LineItem(position, line_total) ==
    [position |-> position, line_total |-> line_total]

\* a complete invoice on which no rule reports
Base ==
    [invoice_number |-> <<"A">>, buyer_name |-> <<"B">>, seller_name |-> <<"S">>,
     invoice_date |-> Date0110, due_date |-> Date0110, delivery_date |-> None,
     currency |-> EUR, net_total |-> NoAmount, tax_amount |-> NoAmount,
     gross_total |-> NoAmount, line_items |-> <<>>, source_file |-> None]

\* invoices that differ in the fields of the duplicate key
KeyPool ==
    { Base,
      [Base EXCEPT !.source_file = <<"a", ".", "p", "d", "f">>,
                   !.gross_total = Amt(0, 0)],
      [Base EXCEPT !.invoice_number = <<"A", "|", "B">>],
      [Base EXCEPT !.seller_name = <<"B", "|", "S">>],
      [Base EXCEPT !.invoice_number = <<>>,
                   !.source_file = <<"b", ".", "p", "d", "f">>] }

Nets == {NoAmount, Amt(0, 0), Amt(64, 0), Amt(60, 0), Amt(-60, 0)}

ItemLists ==
    { <<>>,
      <<LineItem(1, Amt(63, 50)[1])>>,
      <<LineItem(1, Amt(60, 0)[1]), LineItem(2, Amt(4, 64)[1])>>,
      <<LineItem(1, Amt(64, 65)[1])>>,
      <<LineItem(1, Amt(63, 36)[1])>>,
      <<LineItem(1, Amt(63, 35)[1])>>,
      <<LineItem(1, Amt(0, 0)[1])>>,
      <<LineItem(1, Amt(-60, 0)[1])>>,
      <<LineItem(1, Amt(-60, 0)[1]), LineItem(2, Amt(60, 0)[1])>> }

\* <<net_total, tax_amount, gross_total>> around the 0.02 tolerance
TaxCases ==
    { <<Amt(100, 0), Amt(19, 0), g>> :
        g \in {NoAmount, Amt(118, 97), Amt(118, 98), Amt(119, 0), Amt(119, 2),
               Amt(119, 3), Amt(119, 10)} }
    \cup
    { <<Amt(64, 0), Amt(12, 16), g>> :
        g \in {Amt(76, 14), Amt(76, 16), Amt(76, 18), Amt(76, 19)} }
    \cup
    { <<NoAmount, Amt(19, 0), Amt(119, 10)>>,
      <<Amt(100, 0), NoAmount, Amt(119, 10)>>,
      <<NoAmount, NoAmount, Amt(0, 0)>>,
      <<Amt(-60, 0), Amt(-19, 0), Amt(-79, 0)>>,
      <<Amt(-60, 0), Amt(19, 0), Amt(119, 10)>> }

\* invoices that differ in the amounts the business rules read
AmountPool ==
    { [Base EXCEPT !.net_total = a[1], !.tax_amount = a[2], !.gross_total = a[3]] :
        a \in TaxCases }
    \cup
    { [Base EXCEPT !.net_total = n, !.line_items = items] :
        n \in Nets, items \in ItemLists }

\* invoices without a usable invoice_number
UnnamedPool ==
    { [Base EXCEPT !.invoice_number = n, !.source_file = f] :
        n \in {None, <<>>, <<" ">>}, f \in {None, <<"c", ".", "p", "d", "f">>} }

\* invoices on which several categories report at once
MixedPool ==
    { [Base EXCEPT !.buyer_name = b, !.due_date = d, !.currency = c,
                   !.net_total = a[1], !.tax_amount = a[2], !.gross_total = a[3],
                   !.line_items = a[4]] :
        b \in {<<"B">>, None},
        d \in {Date0110, Date0109, DateBadMonth},
        c \in {EUR, <<"X", "X", "X">>},
        a \in { <<NoAmount, NoAmount, NoAmount, <<>> >>,
                <<Amt(60, 0), Amt(19, 0), Amt(0, 0),
                  <<LineItem(1, Amt(63, 50)[1])>> >>,
                <<Amt(0, 0), Amt(0, 0), Amt(0, 0), <<>> >> } }

\* the lists of at most n invoices over a pool
ListsUpTo(pool, n) == UNION { [1..k -> pool] : k \in 0..n }

\* batches that exercise the duplicate state
Batches == ListsUpTo(KeyPool, MaxBatch)

\* one-invoice batches that exercise the per-invoice rules
RuleBatches == { <<invoice>> : invoice \in AmountPool \cup MixedPool \cup UnnamedPool }

Date1231 == <<"2", "0", "2", "3", "-", "1", "2", "-", "3", "1">>

DateFeb30 == <<"2", "0", "2", "4", "-", "0", "2", "-", "3", "0">>

DateGerman == <<"1", "0", ".", "0", "1", ".", "2", "0", "2", "4">>

Sofort == <<"s", "o", "f", "o", "r", "t">>

ASAP == <<"A", "S", "A", "P">>

\* what a date field may hold: nothing, a sentinel or its look-alike, real
\* dates of two years, and strings that are no date
DateValues ==
    { None, <<>>, <<" ">>, Sofort, ASAP, <<"S", "o", "f", "o", "r", "t">>,
      Date0109, Date0110, Date1231, DateBadMonth, DateFeb30, DateGerman }

\* invoices that differ in their dates
DatePool ==
    { [Base EXCEPT !.invoice_date = a, !.due_date = b] :
        a \in DateValues, b \in DateValues }
    \cup
    { [Base EXCEPT !.delivery_date = c] : c \in DateValues }

\* what a required text field may hold
TextValues == { None, <<>>, <<" ">>, <<" ", "\t">>, <<" ", "B", " ">> }

\* invoices that differ in the five required fields
FieldPool ==
    { [Base EXCEPT !.invoice_number = IF 1 \in missing THEN None ELSE @,
                   !.invoice_date = IF 2 \in missing THEN <<>> ELSE @,
                   !.buyer_name = IF 3 \in missing THEN <<" ">> ELSE @,
                   !.seller_name = IF 4 \in missing THEN None ELSE @,
                   !.currency = IF 5 \in missing THEN <<" ", "\t">> ELSE @] :
        missing \in SUBSET (1..5) }
    \cup { [Base EXCEPT !.invoice_number = t] : t \in TextValues }
    \cup { [Base EXCEPT !.buyer_name = t] : t \in TextValues }
    \cup { [Base EXCEPT !.seller_name = t] : t \in TextValues }
    \cup { [Base EXCEPT !.currency = t] : t \in TextValues }

\* one-invoice batches that exercise the completeness and date rules
FieldBatches == { <<invoice>> : invoice \in DatePool \cup FieldPool }

\* two of the orders in which a process may iterate KNOWN_CURRENCIES
HashOrders ==
    { <<"EUR", "USD", "GBP", "INR", "JPY", "CHF">>,
      <<"CHF", "JPY", "INR", "GBP", "USD", "EUR">> }

Validators == {"shared", "local"}

\* the requests in flight at the API
Requests == {1, 2}

\* a request the client has not sent
NoRequest == [state |-> "unsent", invoices |-> <<>>, idx |-> 1, results |-> <<>>,
              error_counts |-> [k \in {} |-> 0], report |-> <<>>]

\* no extraction in progress
NoExtraction == [pc |-> "idle"]

--------------------------------------------------------------------------
(* Operations *)

Init ==
    /\ seen_invoices = [v \in Validators |-> NewSeen]
    /\ self = "shared"
    /\ invoices = <<>>
    /\ idx = 1
    /\ results = <<>>
    /\ error_counts = [k \in {} |-> 0]
    /\ report = <<>>
    /\ previous = <<>>
    /\ pc = "idle"
    /\ now = 0
    /\ hash_order \in HashOrders
    /\ requests = [r \in Requests |-> NoRequest]
    /\ extractor = NoExtraction

\* validate_batch up to the for loop, called on validator v of `store`
ValidateBatch(v, store, batch) ==
    /\ pc \in {"idle", "done", "raised"}
    /\ self' = v
    /\ invoices' = batch
    /\ results' = <<>>
    /\ error_counts' = [k \in {} |-> 0]
    /\ seen_invoices' = [store EXCEPT ![v] = ClearSeen(@)]
    /\ idx' = 1
    /\ previous' = IF pc = "done" /\ batch = invoices
                   THEN <<[report |-> report[1], validator |-> self]>>
                   ELSE <<>>
    /\ report' = <<>>
    /\ pc' = "loop"
    /\ UNCHANGED <<now, hash_order, apart>>

\* POST /validate-json: the module-level validator of the API
ValidateJson(batch) == ValidateBatch("shared", seen_invoices, batch)

\* validate_invoices: a validator constructed for this call
ValidateInvoices(batch) ==
    ValidateBatch("local", [seen_invoices EXCEPT !["local"] = NewSeen], batch)

\* an exception leaves validate_batch: its locals are gone, what the
\* validator recorded stays
Raise(store) ==
    /\ pc' = "raised"
    /\ seen_invoices' = store
    /\ UNCHANGED <<idx, results, error_counts>>

\* the rest of an iteration, v being what validate_invoice returned
Iterate(v) ==
    IF CountErrorsRaises(v.result.errors)
    THEN Raise([seen_invoices EXCEPT ![self] = v.seen])
    ELSE /\ results' = AppendResult(results, v.result)
         /\ error_counts' = CountErrors(error_counts, v.result.errors)
         /\ seen_invoices' = [seen_invoices EXCEPT ![self] = v.seen]
         /\ idx' = idx + 1
         /\ pc' = pc

\* one iteration of `for invoice in invoices`
LoopStep ==
    /\ pc = "loop"
    /\ idx <= Len(invoices)
    /\ IF ValidateInvoiceRaises(invoices[idx])
       THEN Raise(seen_invoices)
       ELSE \E v \in {ValidateInvoice(invoices[idx], seen_invoices[self])} :
               Iterate(v)
    /\ invoices' = [invoices EXCEPT ![idx] = InvoiceAfter(@)]
    /\ UNCHANGED <<self, report, previous, now, hash_order, apart>>

\* the summary and the return of validate_batch
Return ==
    /\ pc = "loop"
    /\ idx > Len(invoices)
    /\ report' = <<ValidationReport(Summary(invoices, results, error_counts), results)>>
    /\ pc' = "done"
    \* the validator validate_invoices constructed is unreachable from here on
    /\ seen_invoices' = IF self = "local"
                        THEN [seen_invoices EXCEPT !["local"] = NewSeen]
                        ELSE seen_invoices
    /\ UNCHANGED <<self, invoices, idx, results, error_counts, previous, now,
                   hash_order, apart>>

\* the wall clock advances
Tick ==
    /\ now < MaxClock
    /\ now' = now + 1
    /\ UNCHANGED <<seen_invoices, self, invoices, idx, results, error_counts,
                   report, previous, pc, hash_order, apart>>

NextOver(inputs) ==
    \/ \E batch \in inputs : ValidateJson(batch)
    \/ \E batch \in inputs : ValidateInvoices(batch)
    \/ LoopStep
    \/ Return
    \/ Tick

Next == NextOver(Batches)

Spec == Init /\ [][Next]_vars

NextRules == NextOver(RuleBatches)

SpecRules == Init /\ [][NextRules]_vars

\* the command line: every call goes through validate_invoices
NextCli(inputs) ==
    \/ \E batch \in inputs : ValidateInvoices(batch)
    \/ LoopStep
    \/ Return
    \/ Tick

NextFields == NextCli(FieldBatches)

SpecFields == Init /\ [][NextFields]_vars

\* every batch of the pools
AnyBatches == Batches \cup RuleBatches \cup FieldBatches

\* one run of the command line: the process validates one batch and exits
NextRun ==
    \/ pc = "idle" /\ \E batch \in AnyBatches : ValidateInvoices(batch)
    \/ LoopStep
    \/ Return
    \/ Tick

\* a call that has started keeps running: the interpreter executes the
\* next iteration and the return of a validate_batch in progress
SpecRun == Init /\ [][NextRun]_vars /\ WF_vars(LoopStep) /\ WF_vars(Return)

--------------------------------------------------------------------------
(* Properties *)

\* the results a state shows: those of the running call, or of the report
Shown == IF pc = "done" THEN report[1].results ELSE results

HasRule(result, rule) ==
    \E j \in 1..Len(result.errors) : result.errors[j].rule = rule

\* present: a value that is neither absent nor the empty string
Present(value) == value # None /\ value # <<>>

Keyed(invoice) ==
    /\ Present(invoice.invoice_number)
    /\ Present(invoice.seller_name)
    /\ Present(invoice.invoice_date)

\* the text invoice_number|seller_name|invoice_date
CompositeKey(invoice) ==
    invoice.invoice_number \o <<"|">> \o invoice.seller_name \o <<"|">>
        \o invoice.invoice_date

\* C1: within one validate_batch call an invoice with invoice_number,
\* seller_name and invoice_date present carries a 'duplicate' error exactly
\* when an earlier invoice of the same batch formed the same composite key;
\* so the first invoice with a key is never flagged and every later one is.
C1_DuplicateIffSeenEarlier ==
    \A i \in 1..Len(Shown) :
        Keyed(invoices[i]) =>
            ( HasRule(Shown[i], "duplicate")
              <=> \E j \in 1..(i - 1) :
                     /\ Keyed(invoices[j])
                     /\ CompositeKey(invoices[j]) = CompositeKey(invoices[i]) )

\* a finished batch of INV A twice: the second is flagged, the first is not
C1_Witness ==
    /\ pc = "done"
    /\ Len(invoices) = 2
    /\ Keyed(invoices[1])
    /\ CompositeKey(invoices[1]) = CompositeKey(invoices[2])
    /\ ~HasRule(report[1].results[1], "duplicate")
    /\ HasRule(report[1].results[2], "duplicate")

\* the results and seen set of a freshly constructed validator given rest,
\* after it has produced done
RECURSIVE FreshRun(_, _, _)
FreshRun(rest, seen, done) ==
    IF rest = <<>> THEN done
    ELSE LET v == ValidateInvoice(Head(rest), seen)
         IN  FreshRun(Tail(rest), v.seen, Append(done, v.result))

\* C2: the duplicate-key set does not leak between batches: every call's
\* results equal those a freshly constructed validator gives for the same
\* list, whatever the validator served before.
C2_NoLeakBetweenBatches ==
    pc = "done" => report[1].results = FreshRun(invoices, {}, <<>>)

\* the shared validator has just served the same keyed list twice in a row
\* and did not flag its first invoice the second time
C2_Witness ==
    /\ pc = "done"
    /\ self = "shared"
    /\ previous # <<>>
    /\ previous[1].validator = "shared"
    /\ Len(invoices) >= 1
    /\ Keyed(invoices[1])
    /\ ~HasRule(report[1].results[1], "duplicate")

\* C3: is_valid is true exactly when the errors list is empty, entries of
\* every severity counted: warnings alone make an invoice invalid.
C3_ValidIffNoErrors ==
    \A i \in 1..Len(Shown) :
        /\ Shown[i].is_valid <=> Shown[i].errors = <<>>
        /\ (\E j \in 1..Len(Shown[i].errors) :
                Shown[i].errors[j].severity = "warning") => ~Shown[i].is_valid

\* an invoice whose only findings are warnings, reported invalid
C3_Witness ==
    /\ pc = "done"
    /\ Len(invoices) = 1
    /\ report[1].results[1].errors # <<>>
    /\ \A j \in 1..Len(report[1].results[1].errors) :
          report[1].results[1].errors[j].severity = "warning"
    /\ ~report[1].results[1].is_valid

\* the place of a rule's category in the fixed order
Rank(rule) ==
    CASE rule = "completeness" -> 1
      [] rule = "format" -> 2
      [] rule = "business_rule" -> 3
      [] rule \in {"duplicate", "anomaly"} -> 4

AmountsPresent(invoice) ==
    /\ invoice.net_total # NoAmount
    /\ invoice.tax_amount # NoAmount
    /\ invoice.gross_total # NoAmount

\* C4: the errors of every result are in category order (completeness,
\* format, business_rule, then duplicate/anomaly), and a category reports
\* whatever the earlier categories reported (no short-circuit).
C4_CategoryOrderNoShortCircuit ==
    \A i \in 1..Len(Shown) :
        LET errors == Shown[i].errors
            invoice == invoices[i]
        IN  /\ \A a \in 1..Len(errors) : \A b \in a..Len(errors) :
                  Rank(errors[a].rule) <= Rank(errors[b].rule)
            /\ invoice.buyer_name = None => HasRule(Shown[i], "completeness")
            /\ invoice.due_date = DateBadMonth => HasRule(Shown[i], "format")
            /\ ( /\ AmountsPresent(invoice)
                 /\ Abs(invoice.net_total[1] + invoice.tax_amount[1]
                        - invoice.gross_total[1]) > 2 )
               => HasRule(Shown[i], "business_rule")
            /\ invoice.gross_total = Amt(0, 0) => HasRule(Shown[i], "anomaly")

\* one invoice on which all four categories reported
C4_Witness ==
    /\ pc = "done"
    /\ Len(invoices) = 1
    /\ HasRule(report[1].results[1], "completeness")
    /\ HasRule(report[1].results[1], "format")
    /\ HasRule(report[1].results[1], "business_rule")
    /\ HasRule(report[1].results[1], "anomaly")

\* C5: total_invoices is the length of the input list and equals
\* valid_invoices + invalid_invoices, which count the results with is_valid
\* true and false; all three are 0 for the empty batch.
C5_SummaryCounts ==
    pc = "done" =>
        LET summary == report[1].summary
            rs == report[1].results
        IN  /\ summary.total_invoices = Len(invoices)
            /\ summary.total_invoices
                 = summary.valid_invoices + summary.invalid_invoices
            /\ summary.valid_invoices
                 = Cardinality({i \in 1..Len(rs) : rs[i].is_valid})
            /\ summary.invalid_invoices
                 = Cardinality({i \in 1..Len(rs) : ~rs[i].is_valid})
            /\ invoices = <<>> =>
                 /\ summary.total_invoices = 0
                 /\ summary.valid_invoices = 0
                 /\ summary.invalid_invoices = 0

\* a finished batch with one valid and one invalid invoice
C5_Witness ==
    /\ pc = "done"
    /\ report[1].summary.total_invoices = 2
    /\ report[1].summary.valid_invoices = 1
    /\ report[1].summary.invalid_invoices = 1

\* the histogram a state shows: the running dict, or the summary's
ShownCounts ==
    IF pc = "done" THEN report[1].summary.error_counts ELSE error_counts

\* the places <<i, j>> of all error entries shown
ErrorPlaces ==
    UNION { { <<i, j>> : j \in 1..Len(Shown[i].errors) } : i \in 1..Len(Shown) }

\* "<rule>:<first whitespace-delimited word of message>" of the entry at a place
KeyAt(place) ==
    LET error == Shown[place[1]].errors[place[2]]
    IN  error.rule \o ":" \o Split(error.message)[1]

RECURSIVE SumOver(_, _)
SumOver(f, keys) ==
    IF keys = {} THEN 0
    ELSE LET k == CHOOSE k \in keys : TRUE
         IN  f[k] + SumOver(f, keys \ {k})

\* C6: error_counts maps each key "<rule>:<first word of message>" to the
\* number of error entries of the batch with that rule and first word; no
\* key has count 0 and the counts add up to the number of entries.
C6_ErrorCounts ==
    /\ \A place \in ErrorPlaces : KeyAt(place) \in DOMAIN ShownCounts
    /\ \A key \in DOMAIN ShownCounts :
          /\ ShownCounts[key] = Cardinality({place \in ErrorPlaces : KeyAt(place) = key})
          /\ ShownCounts[key] > 0
    /\ SumOver(ShownCounts, DOMAIN ShownCounts) = Cardinality(ErrorPlaces)

\* a finished batch whose histogram has two keys, one of them counted twice
C6_Witness ==
    /\ pc = "done"
    /\ Cardinality(DOMAIN report[1].summary.error_counts) >= 2
    /\ \E key \in DOMAIN report[1].summary.error_counts :
          report[1].summary.error_counts[key] = 2

\* C7: results has the length of the input list, results[i] belongs to
\* invoices[i], with invoice_id the invoice_number when that is present and
\* non-empty and "UNKNOWN" otherwise, and source_file copied through.
C7_ResultsFollowInput ==
    /\ pc = "done" => Len(report[1].results) = Len(invoices)
    /\ pc = "loop" => Len(results) = idx - 1
    /\ \A i \in 1..Len(Shown) :
          /\ Shown[i].invoice_id
               = IF Present(invoices[i].invoice_number)
                 THEN invoices[i].invoice_number
                 ELSE <<"U", "N", "K", "N", "O", "W", "N">>
          /\ Shown[i].source_file = invoices[i].source_file

\* a finished batch of an unnamed invoice from b.pdf followed by invoice A
C7_Witness ==
    /\ pc = "done"
    /\ Len(invoices) = 2
    /\ invoices[1].invoice_number = <<>>
    /\ report[1].results[1].invoice_id = <<"U", "N", "K", "N", "O", "W", "N">>
    /\ report[1].results[1].source_file = <<"b", ".", "p", "d", "f">>
    /\ report[1].results[2].invoice_id = <<"A">>
    /\ report[1].results[2].source_file = None

\* the preceding call and this one were both made on a validator
\* constructed for the call, with the same list
TwiceFresh ==
    /\ pc = "done"
    /\ previous # <<>>
    /\ previous[1].validator = "local"
    /\ self = "local"

HasBusinessError(result, word) ==
    \E j \in 1..Len(result.errors) :
        /\ result.errors[j].rule = "business_rule"
        /\ Split(result.errors[j].message)[1] = word

\* C9: with net_total, tax_amount and gross_total present, 'tax calculation
\* mismatch' is reported exactly when |net_total + tax_amount - gross_total|
\* exceeds 0.02, a difference of exactly 0.02 passing; with one of them
\* absent nothing is reported.
C9_TaxTolerance ==
    \A i \in 1..Len(Shown) :
        LET invoice == invoices[i]
        IN  IF AmountsPresent(invoice)
            THEN HasBusinessError(Shown[i], "tax")
                   <=> Abs(invoice.net_total[1] + invoice.tax_amount[1]
                           - invoice.gross_total[1]) > 2
            ELSE ~HasBusinessError(Shown[i], "tax")

\* C10: with line items and net_total present, 'line_items sum' is reported
\* exactly when |sum of line_total - net_total| exceeds 1% of net_total;
\* without line items or without net_total nothing is reported.
C10_LineSumTolerance ==
    \A i \in 1..Len(Shown) :
        LET invoice == invoices[i]
            total == SumOver([j \in 1..Len(invoice.line_items) |->
                                 invoice.line_items[j].line_total],
                             1..Len(invoice.line_items))
        IN  IF invoice.line_items # <<>> /\ invoice.net_total # NoAmount
            THEN HasBusinessError(Shown[i], "line_items")
                   <=> 100 * Abs(total - invoice.net_total[1])
                         > invoice.net_total[1]
            ELSE ~HasBusinessError(Shown[i], "line_items")

\* the real calendar dates among DateValues, earliest first
Chronology == <<Date1231, Date0109, Date0110>>

CalendarDate(value) == \E k \in 1..Len(Chronology) : Chronology[k] = value

DayOrder(value) == CHOOSE k \in 1..Len(Chronology) : Chronology[k] = value

\* C11: 'due_date ... is before invoice_date' is reported exactly when
\* invoice_date and due_date are both present, both are ISO calendar dates
\* and due_date is earlier than invoice_date; equal dates, an absent date, a
\* sentinel and a string that is no date report nothing.
C11_DueDateRule ==
    \A i \in 1..Len(Shown) :
        LET invoice == invoices[i]
        IN  HasBusinessError(Shown[i], "due_date")
              <=> /\ Present(invoice.invoice_date)
                  /\ Present(invoice.due_date)
                  /\ CalendarDate(invoice.invoice_date)
                  /\ CalendarDate(invoice.due_date)
                  /\ DayOrder(invoice.due_date) < DayOrder(invoice.invoice_date)

\* a due date in the preceding year, later in month and day, was reported
C11_Witness ==
    /\ pc = "done"
    /\ Len(invoices) = 1
    /\ invoices[1].invoice_date = Date0109
    /\ invoices[1].due_date = Date1231
    /\ HasBusinessError(report[1].results[1], "due_date")

RequiredFields ==
    {"invoice_number", "invoice_date", "buyer_name", "seller_name", "currency"}

FieldOf(invoice, field) ==
    CASE field = "invoice_number" -> invoice.invoice_number
      [] field = "invoice_date" -> invoice.invoice_date
      [] field = "buyer_name" -> invoice.buyer_name
      [] field = "seller_name" -> invoice.seller_name
      [] field = "currency" -> invoice.currency

\* absent, empty, or nothing but white space
Blank(value) ==
    value = None \/ \A k \in 1..Len(value) : value[k] \in {" ", "\t", "\n"}

\* the places in a result's list of the entries of a rule about a field
EntriesAbout(result, rule, field) ==
    { j \in 1..Len(result.errors) :
        /\ result.errors[j].rule = rule
        /\ Split(result.errors[j].message)[1] = field }

\* C12: the completeness check writes exactly one entry, of severity error,
\* for each of the five required fields that is absent, empty or blank
\* after trimming, and none for a field that is present and not blank; the
\* completeness entries are as many as the fields missing or blank.
C12_CompletenessEntries ==
    \A i \in 1..Len(Shown) :
        /\ \A field \in RequiredFields :
              LET entries == EntriesAbout(Shown[i], "completeness", field)
              IN  /\ Cardinality(entries)
                       = IF Blank(FieldOf(invoices[i], field)) THEN 1 ELSE 0
                  /\ \A j \in entries : Shown[i].errors[j].severity = "error"
        /\ Cardinality({ j \in 1..Len(Shown[i].errors) :
                            Shown[i].errors[j].rule = "completeness" })
             = Cardinality({ field \in RequiredFields :
                                Blank(FieldOf(invoices[i], field)) })

\* an invoice with a blank buyer_name and a currency of blanks, the other
\* three fields filled: two completeness entries
C12_Witness ==
    /\ pc = "done"
    /\ Len(invoices) = 1
    /\ invoices[1].buyer_name = <<" ">>
    /\ invoices[1].currency = <<" ", "\t">>
    /\ invoices[1].invoice_number = <<"A">>
    /\ Cardinality(EntriesAbout(report[1].results[1], "completeness", "buyer_name")) = 1
    /\ Cardinality(EntriesAbout(report[1].results[1], "completeness", "currency")) = 1
    /\ Cardinality({ j \in 1..Len(report[1].results[1].errors) :
                        report[1].results[1].errors[j].rule = "completeness" }) = 2

DateFieldNames == {"invoice_date", "due_date", "delivery_date"}

DateOf(invoice, field) ==
    CASE field = "invoice_date" -> invoice.invoice_date
      [] field = "due_date" -> invoice.due_date
      [] field = "delivery_date" -> invoice.delivery_date

\* C13: for each of invoice_date, due_date and delivery_date a format error
\* is reported exactly when the value is present, is not exactly 'sofort'
\* or 'ASAP', and is not a calendar date written YYYY-MM-DD; an absent
\* value and a sentinel, in whichever field, report none.
C13_DateFormatRule ==
    \A i \in 1..Len(Shown) : \A field \in DateFieldNames :
        LET value == DateOf(invoices[i], field)
        IN  (EntriesAbout(Shown[i], "format", field) # {})
              <=> /\ Present(value)
                  /\ value # Sofort /\ value # ASAP
                  /\ ~CalendarDate(value)

\* 'sofort' as invoice_date and 30 February as due_date: only the latter
\* is reported
C13_Witness ==
    /\ pc = "done"
    /\ Len(invoices) = 1
    /\ invoices[1].invoice_date = Sofort
    /\ invoices[1].due_date = DateFeb30
    /\ EntriesAbout(report[1].results[1], "format", "invoice_date") = {}
    /\ EntriesAbout(report[1].results[1], "format", "due_date") # {}

\* C14: validation never raises for invoice content: no call ends in an
\* exception, and every call that has started returns a report, in which
\* the problems of the data are entries.
C14_NeverRaises ==
    /\ [](pc # "raised")
    /\ [](pc = "done" => report # <<>> /\ Len(report[1].results) = Len(invoices))
    /\ (pc = "loop") ~> (pc = "done")

\* a returned report on an invoice with an absent number and a blank date,
\* both written down as entries
C14_Witness ==
    /\ pc = "done"
    /\ Len(invoices) = 1
    /\ invoices[1].invoice_number = None
    /\ invoices[1].invoice_date = <<>>
    /\ Len(report[1].results[1].errors) >= 2

--------------------------------------------------------------------------
\* C15: while validate_batch runs, every step leaves the list it was given
\* and every invoice and line item in it as they were, and leaves the
\* seen-key set of every other validator alone; only the running
\* validator's seen_invoices, the call's own results and counts, and the
\* clock change.
C15_InputsUnchanged ==
    [][pc = "loop" =>
          /\ invoices' = invoices
          /\ \A v \in Validators \ {self} : seen_invoices'[v] = seen_invoices[v]
          /\ self' = self]_vars

C15_Witness ==
    /\ pc = "done"
    /\ Len(invoices) = 1
    /\ invoices[1].invoice_number = None
    /\ invoices[1].source_file = None
    /\ report[1].results[1].invoice_id = UNKNOWN
    /\ report[1].results[1].source_file = None

--------------------------------------------------------------------------
(* The API.  uvicorn.run(app) serves every request as a coroutine on one   *)
(* event loop; the handlers share the module-level validator.  A coroutine *)
(* gives the loop to another one only where it awaits.                     *)

\* invoices of two keys
ApiPool == {Base, [Base EXCEPT !.invoice_number = <<"A", "|", "B">>]}

ApiBatches == ListsUpTo(ApiPool, MaxBatch)

\* a handler that hands the event loop back between two iterations of the
\* validation loop: a mutant of Awaits
AwaitsInLoop(state) == state \in {"body", "loop"}

\* where the coroutine of a request is suspended: while the framework reads
\* the body; validate_json itself awaits nothing between entry and return
Awaits(state) == state = "body"

\* the event loop is not inside another request's coroutine
LoopFree(r) ==
    \A q \in Requests \ {r} :
        \/ requests[q].state \in {"unsent", "done", "failed"}
        \/ Awaits(requests[q].state)

\* a client posts a list of invoices to /validate-json
Send(r, batch) ==
    /\ requests[r].state = "unsent"
    /\ requests' = [requests EXCEPT ![r] = [@ EXCEPT !.state = "body",
                                                      !.invoices = batch]]
    /\ UNCHANGED <<seen_invoices, self, invoices, idx, results, error_counts,
                   report, previous, pc, now, hash_order, extractor>>

\* validate_json is entered and calls validator.validate_batch, which runs
\* up to its for loop
Enter(r) ==
    /\ requests[r].state = "body"
    /\ LoopFree(r)
    /\ requests' = [requests EXCEPT ![r] = [@ EXCEPT !.state = "loop",
                                                      !.idx = 1,
                                                      !.results = <<>>,
                                                      !.error_counts = [k \in {} |-> 0]]]
    /\ seen_invoices' = [seen_invoices EXCEPT !["shared"] = ClearSeen(@)]
    /\ UNCHANGED <<self, invoices, idx, results, error_counts, report, previous,
                   pc, now, hash_order, extractor>>

\* the request after one iteration that produced v
Iterated(req, v) ==
    IF CountErrorsRaises(v.result.errors)
    THEN [req EXCEPT !.state = "failed"]
    ELSE [req EXCEPT !.results = AppendResult(@, v.result),
                     !.error_counts = CountErrors(@, v.result.errors),
                     !.idx = @ + 1]

\* one iteration of the for loop of validate_batch within request r; an
\* exception becomes the HTTP 500 of validate_json
ApiLoopStep(r) ==
    /\ requests[r].state = "loop"
    /\ requests[r].idx <= Len(requests[r].invoices)
    /\ LoopFree(r)
    /\ IF ValidateInvoiceRaises(requests[r].invoices[requests[r].idx])
       THEN /\ requests' = [requests EXCEPT ![r] = [@ EXCEPT !.state = "failed"]]
            /\ UNCHANGED seen_invoices
       ELSE \E v \in {ValidateInvoice(requests[r].invoices[requests[r].idx],
                                      seen_invoices["shared"])} :
               /\ requests' = [requests EXCEPT ![r] = Iterated(@, v)]
               /\ seen_invoices' = [seen_invoices EXCEPT !["shared"] = v.seen]
    /\ UNCHANGED <<self, invoices, idx, results, error_counts, report, previous,
                   pc, now, hash_order, extractor>>

\* the request after validate_batch has built its report
Returned(req) ==
    [req EXCEPT !.state = "done",
                !.report = <<ValidationReport(
                               Summary(req.invoices, req.results, req.error_counts),
                               req.results)>>]

\* validate_batch returns the report and validate_json returns it
ApiReturn(r) ==
    /\ requests[r].state = "loop"
    /\ requests[r].idx > Len(requests[r].invoices)
    /\ LoopFree(r)
    /\ requests' = [requests EXCEPT ![r] = Returned(@)]
    /\ UNCHANGED <<seen_invoices, self, invoices, idx, results, error_counts,
                   report, previous, pc, now, hash_order, extractor>>

NextApi ==
    \/ \E r \in Requests, batch \in ApiBatches : Send(r, batch)
    \/ \E r \in Requests : Enter(r)
    \/ \E r \in Requests : ApiLoopStep(r)
    \/ \E r \in Requests : ApiReturn(r)
    \/ Tick

SpecApi == Init /\ [][NextApi]_vars

\* C16: two requests served by the shared validator do not see each other's
\* duplicate keys: whatever the order in which the event loop takes the
\* steps of the two coroutines, the results a request has produced so far
\* are those of a fresh validator run on the invoices it has gone through,
\* in input order, and the report it returns holds the results of a fresh
\* validator run on its whole batch.
C16_RequestsIsolated ==
    \A r \in Requests :
        /\ requests[r].state = "loop" =>
              requests[r].results =
                  FreshRun(SubSeq(requests[r].invoices, 1, requests[r].idx - 1),
                           {}, <<>>)
        /\ requests[r].state = "done" =>
              requests[r].report[1].results =
                  FreshRun(requests[r].invoices, {}, <<>>)
        /\ requests[r].state # "failed"

\* request 1 has returned a report that flags the second of two equal
\* invoices, and request 2, sent the same two invoices, is past its first
\* one without a duplicate error although the shared validator saw that key
\* while serving request 1
C16_Witness ==
    /\ requests[1].state = "done"
    /\ requests[1].invoices = <<Base, Base>>
    /\ HasRule(requests[1].report[1].results[2], "duplicate")
    /\ requests[2].state = "loop"
    /\ requests[2].invoices = <<Base, Base>>
    /\ requests[2].idx = 2
    /\ ~HasRule(requests[2].results[1], "duplicate")

--------------------------------------------------------------------------
(* The extractor.  A text is the sequence of its characters.  The regular  *)
(* expressions of PATTERNS are sequences of elements, each of which matches *)
(* greedily; no pattern below has an element that must give characters back *)
(* for a later element to match.                                            *)

\* Body of a value that is computed once
With(value, Body(_)) == CHOOSE r \in { Body(v) : v \in {value} } : TRUE

Lit(chars) == [kind |-> "lit", chars |-> chars]

\* \s* and \s+
Spaces(min) == [kind |-> "spaces", min |-> min]

\* \d{n}
NDigits(n) == [kind |-> "digits", n |-> n]

\* \d+
DigitRun == [kind |-> "digitrun"]

\* \d+[,.]?\d*
Number == [kind |-> "number"]

\* [A-Z]
Capital == [kind |-> "capital"]

Letters == [upper |-> <<"A", "B", "C", "D", "E", "F", "G", "H", "I", "J", "K", "L", "M", "N", "O", "P", "Q", "R", "S", "T", "U", "V", "W", "X", "Y", "Z">>,
            lower |-> <<"a", "b", "c", "d", "e", "f", "g", "h", "i", "j", "k", "l", "m", "n", "o", "p", "q", "r", "s", "t", "u", "v", "w", "x", "y", "z">>]

IsCapital(c) == \E k \in 1..26 : Letters.upper[k] = c

\* str.lower() of one character
Lower(c) ==
    IF IsCapital(c) THEN Letters.lower[CHOOSE k \in 1..26 : Letters.upper[k] = c]
    ELSE c

\* two characters match, under re.IGNORECASE when ic
SameChar(a, b, ic) == IF ic THEN Lower(a) = Lower(b) ELSE a = b

IsDigit(c) == DigitValue(c) >= 0

\* the characters of a European number
NumberChars == {",", "."} \cup { Digits[d] : d \in 1..10 }

\* the first position from p on whose character is not of class
RunEnd(s, p, class) ==
    CHOOSE e \in p..(Len(s) + 1) :
        /\ \A j \in p..(e - 1) : s[j] \in class
        /\ e = Len(s) + 1 \/ s[e] \notin class

DigitsEnd(s, p) == RunEnd(s, p, NumberChars \ {",", "."})

SpacesEnd(s, p) == RunEnd(s, p, Whitespace)

\* \d+[,.]?\d* at p: the position after it, 0 when s[p] is no digit
NumberEnd(s, p) ==
    LET whole == DigitsEnd(s, p)
        point == IF whole <= Len(s) /\ s[whole] \in {",", "."}
                 THEN whole + 1 ELSE whole
    IN  IF whole = p THEN 0 ELSE DigitsEnd(s, point)

\* one element at p: the position after its match, 0 when it does not match
ElementEnd(s, p, el, ic) ==
    CASE el.kind = "lit" ->
            IF /\ p + Len(el.chars) - 1 <= Len(s)
               /\ \A k \in 1..Len(el.chars) : SameChar(s[p + k - 1], el.chars[k], ic)
            THEN p + Len(el.chars) ELSE 0
      [] el.kind = "spaces" ->
            IF SpacesEnd(s, p) - p >= el.min THEN SpacesEnd(s, p) ELSE 0
      [] el.kind = "digits" ->
            IF /\ p + el.n - 1 <= Len(s)
               /\ \A k \in 0..(el.n - 1) : IsDigit(s[p + k])
            THEN p + el.n ELSE 0
      [] el.kind = "digitrun" ->
            IF DigitsEnd(s, p) > p THEN DigitsEnd(s, p) ELSE 0
      [] el.kind = "number" -> NumberEnd(s, p)
      [] el.kind = "capital" ->
            IF p <= Len(s) /\ IsCapital(s[p]) THEN p + 1 ELSE 0

\* a sequence of elements at p: the position after the match, 0 for none
RECURSIVE MatchEnd(_, _, _, _)
MatchEnd(s, p, elements, ic) ==
    IF p = 0 \/ elements = <<>> THEN p
    ELSE With(ElementEnd(s, p, Head(elements), ic),
              LAMBDA q : MatchEnd(s, q, Tail(elements), ic))

\* a pattern is what stands before its group, the group, and what follows
Pattern(before, group, after) == [before |-> before, group |-> group, after |-> after]

\* the position at which the group of a match at p starts, 0 for no match
GroupStart(s, p, pattern, ic) ==
    With(MatchEnd(s, p, pattern.before, ic),
         LAMBDA q : With(MatchEnd(s, q, pattern.group, ic),
                         LAMBDA e : IF MatchEnd(s, e, pattern.after, ic) = 0
                                    THEN 0 ELSE q))

\* re.match: <<group(1)>> of a match at the start of s, <<>> for no match
ReMatch(pattern, s, ic) ==
    With(GroupStart(s, 1, pattern, ic),
         LAMBDA q : IF q = 0 THEN <<>>
                    ELSE <<SubSeq(s, q, MatchEnd(s, q, pattern.group, ic) - 1)>>)

\* the positions at which pattern matches
Matches(s, pattern, ic) == { p \in 1..Len(s) : GroupStart(s, p, pattern, ic) # 0 }

\* the least number of a set of numbers, 0 for the empty set
Least(numbers) ==
    With(numbers, LAMBDA set : IF set = {} THEN 0
                               ELSE CHOOSE p \in set : \A q \in set : p <= q)

\* the leftmost position at which pattern matches, 0 for none
FirstMatch(s, pattern, ic) == Least(Matches(s, pattern, ic))

\* re.search: <<group(1)>> of the leftmost match, <<>> for no match
ReSearch(pattern, s, ic) ==
    With(FirstMatch(s, pattern, ic),
         LAMBDA p : IF p = 0 THEN <<>>
                    ELSE ReMatch(pattern, SubSeq(s, p, Len(s)), ic))

\* InvoiceExtractor.PATTERNS: the date and the amounts
PATTERNS ==
    [invoice_date |->
        Pattern(<<Lit(<<"v", "o", "m">>), Spaces(0)>>,
                <<NDigits(2), Lit(<<".">>), NDigits(2), Lit(<<".">>), NDigits(4)>>, <<>>),
     tax_rate |->
        Pattern(<<Lit(<<"M", "w", "S", "t", ".">>), Spaces(0)>>, <<Number>>, <<Lit(<<"%">>)>>),
     net_total |->
        Pattern(<<Lit(<<"G", "e", "s", "a", "m", "t", "w", "e", "r", "t">>), Spaces(1), Lit(<<"E", "U", "R">>), Spaces(1)>>,
                <<Number>>, <<>>),
     tax_amount |->
        Pattern(<<Lit(<<"M", "w", "S", "t", ".">>), Spaces(1), Number, Lit(<<"%">>), Spaces(1),
                  Lit(<<"E", "U", "R">>), Spaces(1)>>, <<Number>>, <<>>),
     gross_total |->
        Pattern(<<Lit(<<"G", "e", "s", "a", "m", "t", "w", "e", "r", "t", " ", "i", "n", "k", "l", ".", " ", "M", "w", "S", "t", ".">>), Spaces(1), Lit(<<"E", "U", "R">>), Spaces(1)>>,
                <<Number>>, <<>>)]

NumericFields == {"net_total", "tax_amount", "gross_total", "tax_rate"}

\* a decimal number: value / 10^places, without trailing decimal zeros
RECURSIVE Decimal(_, _)
Decimal(value, places) ==
    IF places > 0 /\ value % 10 = 0 THEN Decimal(value \div 10, places - 1)
    ELSE [value |-> value, places |-> places]

\* str.replace(c, '')
Remove(s, c) == SelectSeq(s, LAMBDA x : x # c)

\* str.replace(old, new) for one-character old and new
Replace(s, old, new) == [k \in 1..Len(s) |-> IF s[k] = old THEN new ELSE s[k]]

\* the position of the first c in s, 0 when there is none
Find(s, c) == Least({ p \in 1..Len(s) : s[p] = c })

\* float(s) for an s of digits and points: <<the number>>, <<>> on ValueError
FloatOf(s) ==
    With(Find(s, "."),
         LAMBDA point :
            With(IF point = 0 THEN <<s, <<>>>>
                 ELSE <<SubSeq(s, 1, point - 1), SubSeq(s, point + 1, Len(s))>>,
                 LAMBDA parts :
                    IF /\ IsDigits(parts[1])
                       /\ IsDigits(parts[2])
                       /\ parts[1] \o parts[2] # <<>>
                    THEN With(ToInt(parts[1] \o parts[2]),
                              LAMBDA digits : <<Decimal(digits, Len(parts[2]))>>)
                    ELSE <<>>))

\* the mutant of ParseGermanNumber that reads the point as the decimal
\* point
ParseEnglishNumber(value) ==
    IF value = <<>> THEN Decimal(0, 0)
    ELSE IF FloatOf(Remove(value, ",")) = <<>> THEN Decimal(0, 0)
    ELSE FloatOf(Remove(value, ","))[1]

\* InvoiceExtractor._parse_german_number
ParseGermanNumber(value) ==
    IF value = <<>> THEN Decimal(0, 0)
    ELSE With(Replace(Remove(value, "."), ",", "."),
              LAMBDA replaced :
                 With(FloatOf(replaced),
                      LAMBDA float : IF float = <<>> THEN Decimal(0, 0)
                                     ELSE float[1]))

\* the number of sep among the first p characters of s
Count(s, sep, p) == Cardinality({ j \in 1..p : s[j] = sep })

\* the position of the k-th sep of s; 0 and Len(s) + 1 bound the string
Cut(s, sep, k) ==
    IF k = 0 THEN 0
    ELSE IF k > Count(s, sep, Len(s)) THEN Len(s) + 1
    ELSE CHOOSE p \in 1..Len(s) : s[p] = sep /\ Count(s, sep, p) = k

\* str.split(sep) for a one-character sep
SplitOn(s, sep) ==
    [k \in 1..(Count(s, sep, Len(s)) + 1) |->
        SubSeq(s, Cut(s, sep, k - 1) + 1, Cut(s, sep, k) - 1)]

\* str.zfill(2)
ZFill2(s) == IF Len(s) = 0 THEN <<"0", "0">> ELSE IF Len(s) = 1 THEN <<"0">> \o s ELSE s

\* f"{year}-{month.zfill(2)}-{day.zfill(2)}" of <<day, month, year>>
IsoOfParts(parts) == parts[3] \o <<"-">> \o ZFill2(parts[2]) \o <<"-">> \o ZFill2(parts[1])

\* a conversion that keeps the order of the parts: a mutant of ConvertDate
ConvertDateKeepOrder(date_str) == Replace(date_str, ".", "-")

\* InvoiceExtractor._convert_date: unpacking anything but three parts raises
\* ValueError, which the bare except turns into the unconverted string
ConvertDate(date_str) ==
    IF Find(date_str, ".") # 0 /\ Len(SplitOn(date_str, ".")) = 3
    THEN IsoOfParts(SplitOn(date_str, "."))
    ELSE date_str

\* data.get(key), None for a key that is not set
Get(data, key) == IF key \in DOMAIN data THEN data[key] ELSE None

\* the loop over PATTERNS of _extract_fields: the stripped group of every
\* pattern that matches, numeric fields parsed
MatchedFields(text) ==
    LET found == { f \in DOMAIN PATTERNS : ReSearch(PATTERNS[f], text, TRUE) # <<>> }
    IN  [f \in found |->
            IF f \in NumericFields
            THEN ParseGermanNumber(Strip(ReSearch(PATTERNS[f], text, TRUE)[1]))
            ELSE Strip(ReSearch(PATTERNS[f], text, TRUE)[1])]

\* the end of _extract_fields on the dict the loop filled
WithDates(data) ==
    IF "invoice_date" \in DOMAIN data
    THEN ("currency" :> EUR) @@ ("due_date" :> ConvertDate(data.invoice_date))
         @@ [data EXCEPT !.invoice_date = ConvertDate(@)]
    ELSE ("currency" :> EUR) @@ data

\* InvoiceExtractor._extract_fields, for the date, the amounts and the
\* currency
ExtractFields(text) == WithDates(MatchedFields(text))

\* a validator that keeps every string it is given: a mutant of
\* ValidateDateFormat
KeepDate(v) == v

\* Invoice.validate_date_format
ValidateDateFormat(v) ==
    IF v = None THEN v
    ELSE IF Len(v) = 10 /\ v[5] = "-" /\ v[8] = "-" THEN v
    ELSE IF Find(v, ".") # 0 /\ Len(SplitOn(v, ".")) = 3
         THEN IsoOfParts(SplitOn(v, "."))
         ELSE v

\* Invoice(**invoice_data): the fields the extractor sets, the date
\* validator applied
Construct(invoice_data) ==
    [invoice_date |-> ValidateDateFormat(Get(invoice_data, "invoice_date")),
     due_date |-> ValidateDateFormat(Get(invoice_data, "due_date")),
     delivery_date |-> ValidateDateFormat(Get(invoice_data, "delivery_date")),
     currency |-> IF "currency" \in DOMAIN invoice_data
                  THEN invoice_data.currency ELSE EUR,
     net_total |-> Get(invoice_data, "net_total"),
     tax_rate |-> Get(invoice_data, "tax_rate"),
     tax_amount |-> Get(invoice_data, "tax_amount"),
     gross_total |-> Get(invoice_data, "gross_total"),
     line_items |-> IF "line_items" \in DOMAIN invoice_data
                    THEN invoice_data.line_items ELSE <<>>]

\* the two tests of a line that may start an item
CandidatePatterns ==
    {Pattern(<<DigitRun, Spaces(1), DigitRun, Spaces(1), Lit(<<"V", "E">>)>>, <<>>, <<>>),
     Pattern(<<DigitRun, Spaces(1), Capital>>, <<>>, <<>>)}

IsCandidate(line) == \E pattern \in CandidatePatterns : ReMatch(pattern, line, FALSE) # <<>>

\* (\d+)\s+VE
QuantityPattern == Pattern(<<>>, <<DigitRun>>, <<Spaces(1), Lit(<<"V", "E">>)>>)

\* (\d+[,.]?\d*)\s+pro\s+1\s+VE
PricePattern ==
    Pattern(<<>>, <<Number>>,
            <<Spaces(1), Lit(<<"p", "r", "o">>), Spaces(1), Lit(<<"1">>), Spaces(1), Lit(<<"V", "E">>)>>)

\* the next numeric token of s at or after p, and those that follow it
RECURSIVE FindAllFrom(_, _)
FindAllFrom(s, p) ==
    With(Least({ j \in p..Len(s) : IsDigit(s[j]) }),
         LAMBDA start :
            IF start = 0 THEN <<>>
            ELSE With(NumberEnd(s, start),
                      LAMBDA end : <<SubSeq(s, start, end - 1)>>
                                      \o FindAllFrom(s, end)))

\* re.findall(r'(\d+[,.]?\d*)', s)
FindAll(s) == FindAllFrom(s, 1)

\* the float of a parsed number; the amounts of the model have at most two
\* decimal places
FloatOfDecimal(d) ==
    With(d, LAMBDA number : Float(<<number.value * 10 ^ (2 - number.places)>>))

\* float(n) * x for an integer n
FTimesInt(n, x) ==
    With(x, LAMBDA float : Round(n * float[1], n * float[2], 0, 100))

\* x * 0.9, as a float counted in 1/10000 instead of 1/100
TimesNineTenths(x) ==
    With(<<x, Float(<<90>>)>>,
         LAMBDA factors :
            Round(90 * factors[1][1],
                  90 * factors[1][2] + factors[1][1] * factors[2][2],
                  Sign(factors[1][2]) * Sign(factors[2][2]), 10000))

\* potential_total >= threshold, the threshold counted in 1/10000
AtLeast(potential_total, threshold) ==
    With(<<threshold, InTenThousandths(potential_total)>>,
         LAMBDA floats : ~FGreater(floats[1], floats[2]))

\* `for amt in reversed(amount_matches)` over the first k tokens: the float
\* of the first token met that is at least the threshold, 0.0 for none
RECURSIVE LastAtLeast(_, _, _)
LastAtLeast(amount_matches, k, threshold) ==
    IF k = 0 THEN <<0, 0>>
    ELSE With(FloatOfDecimal(ParseGermanNumber(amount_matches[k])),
              LAMBDA potential_total :
                 IF AtLeast(potential_total, threshold) THEN potential_total
                 ELSE LastAtLeast(amount_matches, k - 1, threshold))

\* the scan for the line total without the test for two tokens: a mutant of
\* ScanAmounts
ScanAmountsOfAny(amount_matches, quantity, unit_price) ==
    With(TimesNineTenths(FTimesInt(quantity, unit_price)),
         LAMBDA threshold :
            LastAtLeast(amount_matches, Len(amount_matches), threshold))

\* `if len(amount_matches) >= 2: for amt in reversed(amount_matches): ...`
ScanAmounts(amount_matches, quantity, unit_price) ==
    IF Len(amount_matches) >= 2
    THEN With(TimesNineTenths(FTimesInt(quantity, unit_price)),
              LAMBDA threshold :
                 LastAtLeast(amount_matches, Len(amount_matches), threshold))
    ELSE <<0, 0>>

\* line_total of _parse_line_item: the scan, then the product when the scan
\* left 0.0 and there is a unit price
LineTotal(amount_matches, quantity, unit_price) ==
    With(ScanAmounts(amount_matches, quantity, unit_price),
         LAMBDA line_total :
            IF line_total = <<0, 0>> /\ FGreater(unit_price, <<0, 0>>)
            THEN FTimesInt(quantity, unit_price)
            ELSE line_total)

\* unit_price of _parse_line_item
UnitPrice(line) ==
    With(ReSearch(PricePattern, line, FALSE),
         LAMBDA price_match :
            IF price_match = <<>> THEN <<0, 0>>
            ELSE FloatOfDecimal(ParseGermanNumber(price_match[1])))

\* the LineItem of a line with quantity: the quantity is the float of an
\* integer, the prices are floats
LineItemOf(line, position, quantity) ==
    With(<<UnitPrice(line), FindAll(line)>>,
         LAMBDA found :
            [position |-> position, quantity |-> quantity,
             unit_price |-> found[1],
             line_total |-> LineTotal(found[2], quantity, found[1])])

\* InvoiceExtractor._parse_line_item, for the position, the quantity and
\* the prices: <<>> is None
ParseLineItem(line, position) ==
    With(ReSearch(QuantityPattern, line, FALSE),
         LAMBDA quantity_match :
             IF quantity_match = <<>> THEN <<>>
             ELSE With(ToInt(quantity_match[1]),
                       LAMBDA quantity : <<LineItemOf(line, position, quantity)>>))

\* what the try block of the scan can end with on a candidate line: the
\* value _parse_line_item returns, or an exception raised inside it
TryOutcomes(line, position) ==
    {[raised |-> FALSE, item |-> ParseLineItem(line, position)],
     [raised |-> TRUE, item |-> <<>>]}

\* what one line gives the scan
LineOutcomes(line, position) ==
    IF IsCandidate(line) THEN TryOutcomes(line, position)
    ELSE {[raised |-> FALSE, item |-> <<>>]}

\* a counter that counts every line: a mutant of CounterAfter
CounterAfterLine(pos_counter, item) == pos_counter + 1

\* `if item_data: ... pos_counter += 1`
CounterAfter(pos_counter, item) ==
    IF item # <<>> THEN pos_counter + 1 ELSE pos_counter

\* text += page.extract_text() + "\n", for every page
RECURSIVE PdfText(_)
PdfText(pages) ==
    IF pages = <<>> THEN <<>> ELSE Head(pages) \o <<"\n">> \o PdfText(Tail(pages))

\* "\n".join(lines)
RECURSIVE JoinLines(_)
JoinLines(lines) ==
    IF lines = <<>> THEN <<>>
    ELSE IF Len(lines) = 1 THEN lines[1]
    ELSE lines[1] \o <<"\n">> \o JoinLines(Tail(lines))

\* bound of the model: the item lines of a page
MaxLines == 3

DateLines ==
    {<<"B", "e", "s", "t", "e", "l", "l", "u", "n", "g", " ", "A", "U", "F", "N", "R", "1", " ", "v", "o", "m", " ", "0", "5", ".", "0", "3", ".", "2", "0", "2", "4">>, <<"v", "o", "m", "2", "2", ".", "0", "5", ".", "2", "0", "2", "4">>,
     <<"B", "e", "s", "t", "e", "l", "l", "u", "n", "g", " ", "V", "O", "M", " ", "3", "1", ".", "0", "2", ".", "2", "0", "2", "4">>, <<"v", "o", "m", " ", "5", ".", "3", ".", "2", "0", "2", "4">>}

NetLines ==
    {<<"G", "e", "s", "a", "m", "t", "w", "e", "r", "t", " ", "E", "U", "R", " ", "6", "4", ",", "0", "0">>, <<"G", "e", "s", "a", "m", "t", "w", "e", "r", "t", " ", "E", "U", "R", " ", "1", ".", "2", "3", "4", ",", "5", "6">>,
     <<"G", "e", "s", "a", "m", "t", "w", "e", "r", "t", " ", " ", "E", "U", "R", " ", "1", "2", "3", "4", ",", "5", "6">>, <<"g", "e", "s", "a", "m", "t", "w", "e", "r", "t", " ", "E", "U", "R", " ", "1", "2", ".", "5">>}

TaxLines == {<<"M", "w", "S", "t", ".", " ", "1", "9", "%", " ", "E", "U", "R", " ", "1", "2", ",", "1", "6">>}

GrossLines ==
    {<<"G", "e", "s", "a", "m", "t", "w", "e", "r", "t", " ", "i", "n", "k", "l", ".", " ", "M", "w", "S", "t", ".", " ", "E", "U", "R", " ", "7", "6", ",", "1", "6">>, <<"G", "e", "s", "a", "m", "t", "w", "e", "r", "t", " ", "i", "n", "k", "l", ".", " ", "M", "w", "S", "t", ".", " ", "E", "U", "R", " ", "1", ".", "0", "7", "6", ",", "1", "6">>}

ItemLines ==
    {<<"1", " ", "4", " ", "V", "E", " ", "6", "4", ",", "0", "0", " ", "1", "6", ",", "0", "0", "0", "0", " ", "p", "r", "o", " ", "1", " ", "V", "E">>, <<"2", " ", "M", "a", "u", "s">>, <<" ", " ", "3", " ", "1", "2", " ", "V", "E">>, <<"P", "o", "s", ".", " ", "M", "e", "n", "g", "e">>}

\* at most one line of a set
Optional(lines) == {<<>>} \cup { <<line>> : line \in lines }

\* pages that differ in the fields
FieldPages ==
    { JoinLines(d \o n \o t \o g) :
        d \in Optional(DateLines), n \in Optional(NetLines),
        t \in Optional(TaxLines), g \in Optional(GrossLines) }

\* pages that differ in the item lines
ScanPages ==
    { JoinLines(<<<<"B", "e", "s", "t", "e", "l", "l", "u", "n", "g", " ", "A", "U", "F", "N", "R", "1", " ", "v", "o", "m", " ", "0", "5", ".", "0", "3", ".", "2", "0", "2", "4">>>> \o items
                \o <<<<"G", "e", "s", "a", "m", "t", "w", "e", "r", "t", " ", "E", "U", "R", " ", "6", "4", ",", "0", "0">>>>) :
        items \in ListsUpTo(ItemLines, MaxLines) }

\* the start line of the sample invoices; "ue" stands for the letter
\* u-umlaut, which is no digit, no white space and no capital A-Z
SampleLine ==
    <<"1", " ", "4", " ", "V", "E", " ", " ", "1", " ", "V", "E", "=", "2", "0", " ", "S", "t">> \o <<"ue">> \o <<"c", "k", " ", " ", "6", "4", ",", "0", "0", " ", "1", "6", ",", "0", "0", "0", "0", " ", "p", "r", "o", " ", "1", " ", "V", "E">>

\* bound of the model: the priced item lines of a page
MaxPriced == 2

\* item lines that differ in how the line total is found
PricedLines ==
    {SampleLine, <<"1", " ", "4", " ", "V", "E", " ", "1", "6", ",", "0", "0", " ", "p", "r", "o", " ", "1", " ", "V", "E">>, <<"4", " ", "V", "E">>, <<"1", " ", "2", " ", "V", "E", " ", "3", ",", "7", "8", " ", "2", ",", "1", "0", " ", "p", "r", "o", " ", "1", " ", "V", "E">>,
     <<"1", " ", "3", " ", "V", "E", " ", "5", ",", "0", "0", " ", "7", ",", "5", "0">>, <<"1", " ", "5", " ", "V", "E", " ", "2", "0", ",", "0", "0", " ", "4", ",", "0", "0", " ", "p", "r", "o", " ", " ", "1", " ", " ", "V", "E", " ", "9", ",", "9", "9", " ", "E", "U", "R">>}

\* pages that differ in the priced item lines
PricedPages == { JoinLines(items) : items \in ListsUpTo(PricedLines, MaxPriced) }

Pdfs == { <<page>> : page \in FieldPages \cup ScanPages \cup PricedPages }

Tomorrow == <<"t", "o", "m", "o", "r", "r", "o", "w">>

\* date strings of a JSON file
RawDates ==
    {None, Sofort, Date0110, DateGerman, <<"1", ".", "2", ".", "2", "0", "2", "4">>, Tomorrow, DateBadMonth}

\* the JSON objects of `validate --input`
RawInvoices ==
    { ("invoice_date" :> d) @@ ("delivery_date" :> v) :
        d \in RawDates, v \in RawDates }

\* extract_from_pdf up to the call of _extract_line_items
ExtractFromPdf(pages) ==
    /\ extractor.pc = "idle"
    /\ extractor' = [pc |-> "fields", text |-> PdfText(pages),
                     invoice_data |-> ExtractFields(PdfText(pages))]
    /\ UNCHANGED <<seen_invoices, self, invoices, idx, results, error_counts,
                   report, previous, pc, now, hash_order, requests>>

\* _extract_line_items up to its while loop
StartScan ==
    /\ extractor.pc = "fields"
    /\ extractor' = [pc |-> "scan", text |-> extractor.text,
                     invoice_data |-> extractor.invoice_data,
                     lines |-> SplitOn(extractor.text, "\n"),
                     line_items |-> <<>>, pos_counter |-> 1, i |-> 0]
    /\ UNCHANGED <<seen_invoices, self, invoices, idx, results, error_counts,
                   report, previous, pc, now, hash_order, requests>>

\* the locals of the scan after a line that gave outcome
Scanned(scan, outcome) ==
    [scan EXCEPT !.line_items = IF outcome.item # <<>>
                                THEN Append(@, outcome.item[1]) ELSE @,
                 !.pos_counter = CounterAfter(@, outcome.item),
                 !.i = @ + 1]

\* one iteration of `while i < len(lines)`
ScanStep ==
    /\ extractor.pc = "scan"
    /\ extractor.i < Len(extractor.lines)
    /\ \E line \in {Strip(extractor.lines[extractor.i + 1])} :
          \E outcome \in LineOutcomes(line, extractor.pos_counter) :
             extractor' = Scanned(extractor, outcome)
    /\ UNCHANGED <<seen_invoices, self, invoices, idx, results, error_counts,
                   report, previous, pc, now, hash_order, requests>>

\* _extract_line_items returns and extract_from_pdf builds the Invoice
ScanReturn ==
    /\ extractor.pc = "scan"
    /\ extractor.i >= Len(extractor.lines)
    /\ extractor' =
          [pc |-> "done", text |-> extractor.text,
           invoice_data |-> extractor.invoice_data,
           lines |-> extractor.lines, line_items |-> extractor.line_items,
           pos_counter |-> extractor.pos_counter, i |-> extractor.i,
           invoice |-> Construct(("line_items" :> extractor.line_items)
                                 @@ extractor.invoice_data)]
    /\ UNCHANGED <<seen_invoices, self, invoices, idx, results, error_counts,
                   report, previous, pc, now, hash_order, requests>>

\* `Invoice(**inv)` on an object of a JSON file
LoadJson(raw) ==
    /\ extractor.pc = "idle"
    /\ extractor' = [pc |-> "loaded", raw |-> raw, invoice |-> Construct(raw)]
    /\ UNCHANGED <<seen_invoices, self, invoices, idx, results, error_counts,
                   report, previous, pc, now, hash_order, requests>>

NextExtract ==
    \/ \E pages \in Pdfs : ExtractFromPdf(pages)
    \/ StartScan
    \/ ScanStep
    \/ ScanReturn
    \/ \E raw \in RawInvoices : LoadJson(raw)

\* the scan, once started, keeps running: the interpreter executes the next
\* iteration and the return of a while loop in progress
SpecExtract ==
    Init /\ [][NextExtract]_vars /\ WF_vars(ScanStep) /\ WF_vars(ScanReturn)

--------------------------------------------------------------------------
\* the whole token that stands where the group of the leftmost match of
\* the field's pattern starts
FullToken(field, text) ==
    LET p == FirstMatch(text, PATTERNS[field], TRUE)
        q == GroupStart(text, p, PATTERNS[field], TRUE)
    IN  SubSeq(text, q, RunEnd(text, q, NumberChars) - 1)

Extracted == extractor.pc \in {"fields", "scan", "done"}

\* C17: monetary extraction honours the European number format: whenever
\* the label of net_total, tax_amount or gross_total is matched, the value
\* extracted is that of the full token after the label with every '.'
\* removed and ',' read as the decimal point; "Gesamtwert EUR 1.234,56"
\* gives 1234.56.
C17_EuropeanNumbers ==
    Extracted =>
        \A field \in {"net_total", "tax_amount", "gross_total"} :
            FirstMatch(extractor.text, PATTERNS[field], TRUE) # 0 =>
                /\ field \in DOMAIN extractor.invoice_data
                /\ extractor.invoice_data[field] =
                      ParseGermanNumber(FullToken(field, extractor.text))

\* the date token DD.MM.YYYY read as YYYY-MM-DD
IsoOfToken(token) ==
    SubSeq(token, 7, 10) \o <<"-">> \o SubSeq(token, 4, 5) \o <<"-">> \o SubSeq(token, 1, 2)

\* s contains part
Contains(s, part) ==
    \E p \in 1..(Len(s) - Len(part) + 1) : SubSeq(s, p, p + Len(part) - 1) = part

\* C18: field extraction normalizes the invoice date and defaults the due
\* date: a matched 'vom DD.MM.YYYY' gives invoice_date 'YYYY-MM-DD' with
\* month and day as two digits ("vom 05.03.2024" gives "2024-03-05"),
\* due_date is the same value, the Invoice built from the fields holds
\* both, and when no date is matched neither field is set.
C18_DateExtraction ==
    Extracted =>
        /\ IF ReSearch(PATTERNS.invoice_date, extractor.text, TRUE) # <<>>
           THEN /\ {"invoice_date", "due_date"} \subseteq DOMAIN extractor.invoice_data
                /\ extractor.invoice_data.invoice_date =
                      IsoOfToken(ReSearch(PATTERNS.invoice_date, extractor.text, TRUE)[1])
                /\ extractor.invoice_data.due_date = extractor.invoice_data.invoice_date
           ELSE {"invoice_date", "due_date"} \cap DOMAIN extractor.invoice_data = {}
        /\ Contains(extractor.text, <<"v", "o", "m", " ", "0", "5", ".", "0", "3", ".", "2", "0", "2", "4">>) =>
              /\ Get(extractor.invoice_data, "invoice_date") = <<"2", "0", "2", "4", "-", "0", "3", "-", "0", "5">>
              /\ Get(extractor.invoice_data, "due_date") = <<"2", "0", "2", "4", "-", "0", "3", "-", "0", "5">>
        /\ extractor.pc = "done" =>
              /\ extractor.invoice.invoice_date = Get(extractor.invoice_data, "invoice_date")
              /\ extractor.invoice.due_date = Get(extractor.invoice_data, "due_date")

C18_Witness ==
    /\ extractor.pc = "done"
    /\ Contains(extractor.text, <<"v", "o", "m", " ", "0", "5", ".", "0", "3", ".", "2", "0", "2", "4">>)
    /\ extractor.invoice.invoice_date = <<"2", "0", "2", "4", "-", "0", "3", "-", "0", "5">>
    /\ extractor.invoice.due_date = <<"2", "0", "2", "4", "-", "0", "3", "-", "0", "5">>

\* C19: every constructed Invoice satisfies the date invariant: each of
\* invoice_date, due_date and delivery_date is null, a sentinel ('sofort',
\* 'ASAP') or a string that parses as a YYYY-MM-DD date.
C19_DateInvariant ==
    extractor.pc \in {"done", "loaded"} =>
        \A field \in DateFieldNames :
            \/ extractor.invoice[field] = None
            \/ extractor.invoice[field] \in {Sofort, ASAP}
            \/ IsValidDate(extractor.invoice[field])

\* the state of the scan: the items found so far are numbered 1, 2, ... in
\* list order, the counter is the next number, the cursor is within the
\* lines
ScanState ==
    extractor.pc \in {"scan", "done"} =>
        /\ \A k \in 1..Len(extractor.line_items) : extractor.line_items[k].position = k
        /\ extractor.pos_counter = Len(extractor.line_items) + 1
        /\ extractor.i \in 0..Len(extractor.lines)
        /\ extractor.lines = SplitOn(extractor.text, "\n")
        /\ extractor.pc = "done" =>
              /\ extractor.i = Len(extractor.lines)
              /\ extractor.invoice.line_items = extractor.line_items

\* a step of the scan: the cursor moves to the next line whatever the line
\* gave, at most one item is appended, and the scan returns only from the
\* end of the lines
ScanMove ==
    extractor.pc = "scan" =>
        /\ extractor'.lines = extractor.lines
        /\ \/ /\ extractor'.pc = "scan"
              /\ extractor'.i = extractor.i + 1
              /\ \/ extractor'.line_items = extractor.line_items
                 \/ /\ Len(extractor'.line_items) = Len(extractor.line_items) + 1
                    /\ SubSeq(extractor'.line_items, 1, Len(extractor.line_items))
                          = extractor.line_items
                    /\ IsCandidate(Strip(extractor.lines[extractor.i + 1]))
           \/ /\ extractor'.pc = "done"
              /\ extractor'.i = extractor.i
              /\ extractor.i = Len(extractor.lines)
              /\ extractor'.line_items = extractor.line_items

\* C20: the line-item scan visits every line once, top to bottom, moving
\* the cursor by one line per step whether or not the line gave an item,
\* and terminates; the items it returns have positions 1, 2, ..., n in
\* list order, a rejected or raising candidate taking no position.
C20_ScanOrder ==
    /\ []ScanState
    /\ [][ScanMove]_vars
    /\ (extractor.pc = "scan") ~> (extractor.pc = "done")

\* a page whose second line is a candidate without a quantity and whose
\* other two item lines gave the items 1 and 2
C20_Witness ==
    /\ extractor.pc = "done"
    /\ Len(extractor.lines) = 6
    /\ extractor.lines[3] = <<"2", " ", "M", "a", "u", "s">>
    /\ Len(extractor.line_items) = 2
    /\ extractor.line_items[1].position = 1
    /\ extractor.line_items[1].quantity = 4
    /\ extractor.line_items[2].position = 2
    /\ extractor.line_items[2].quantity = 12

--------------------------------------------------------------------------
\* the line has an '<integer> VE' pair: a digit, white space, "VE"
HasQuantityPair(line) ==
    \E a \in 1..Len(line), b \in 1..Len(line) :
        /\ a + 1 < b
        /\ b < Len(line)
        /\ IsDigit(line[a])
        /\ \A j \in (a + 1)..(b - 1) : line[j] \in Whitespace
        /\ line[b] = "V"
        /\ line[b + 1] = "E"

\* the value of a numeric token, read as a European number
TokenValue(token) == FloatOfDecimal(ParseGermanNumber(token))

\* the tokens that are at least 90% of quantity times unit price of item
Qualifying(tokens, item) ==
    { k \in 1..Len(tokens) :
        AtLeast(TokenValue(tokens[k]),
                TimesNineTenths(FTimesInt(item.quantity, item.unit_price))) }

\* the line total of item when candidates are the tokens it may be taken
\* from: the last candidate, else the product, else 0
SelectedTotal(tokens, candidates, item) ==
    IF candidates # {}
    THEN TokenValue(tokens[CHOOSE k \in candidates : \A j \in candidates : j <= k])
    ELSE IF FGreater(item.unit_price, <<0, 0>>)
         THEN FTimesInt(item.quantity, item.unit_price)
         ELSE <<0, 0>>

\* a step of the scan that appends an item does so for a line with a
\* quantity pair and gives the item the selected total; from_two tells
\* whether a line with fewer than two tokens has no candidates
SelectionStep(from_two) ==
    /\ extractor.pc = "scan"
    /\ extractor'.pc = "scan"
    /\ Len(extractor'.line_items) > Len(extractor.line_items)
    => LET line == Strip(extractor.lines[extractor.i + 1])
           tokens == FindAll(line)
           item == extractor'.line_items[Len(extractor'.line_items)]
           candidates == IF from_two /\ Len(tokens) < 2 THEN {}
                         ELSE Qualifying(tokens, item)
       IN  /\ HasQuantityPair(line)
           /\ item.line_total = SelectedTotal(tokens, candidates, item)
           /\ line = SampleLine =>
                 /\ item.quantity = 4
                 /\ item.unit_price = Float(Amt(16, 0))
                 /\ item.line_total = Float(Amt(64, 0))

\* C21 as stated: the line total of an item is the last numeric token of
\* its start line that is >= quantity * unit_price * 0.9, the product when
\* no token qualifies and the unit price is positive, and 0 otherwise; the
\* sample line gives 4.0, 16.0 and 64.0; a line without an '<integer> VE'
\* pair gives no item.
C21_LineTotalSelection == [][SelectionStep(FALSE)]_vars

\* C21 as amended: the same, the tokens being candidates only when the
\* start line has at least two numeric tokens, and the comparison being
\* that of the binary64 values.
C21_LineTotalOfTwoTokens == [][SelectionStep(TRUE)]_vars

\* the page of the one-token line "4 VE" and the sample line: the first
\* item has the total 0.0, the second the total 64.0
C21_Witness ==
    /\ extractor.pc = "done"
    /\ Len(extractor.lines) = 3
    /\ extractor.lines[1] = <<"4", " ", "V", "E">>
    /\ extractor.lines[2] = SampleLine
    /\ Len(extractor.line_items) = 2
    /\ extractor.line_items[1].line_total = <<0, 0>>
    /\ extractor.line_items[2].quantity = 4
    /\ extractor.line_items[2].unit_price = Float(Amt(16, 0))
    /\ extractor.line_items[2].line_total = Float(Amt(64, 0))

--------------------------------------------------------------------------
\* the composite keys of the keyed invoices among the first k of the batch
KeysOfFirst(k) ==
    { CompositeKey(invoices[j]) : j \in { i \in 1..k : Keyed(invoices[i]) } }

\* the 'duplicate' errors of the results rs
DuplicateErrors(rs) ==
    { place \in (1..Len(rs)) \X (1..2) :
        /\ place[2] <= Len(rs[place[1]].errors)
        /\ rs[place[1]].errors[place[2]].rule = "duplicate" }

\* inside a call, after the first idx - 1 invoices: the seen set is the set
\* of their composite keys, and there are as many 'duplicate' errors as
\* keyed invoices beyond the distinct keys
SeenState ==
    pc = "loop" =>
        /\ seen_invoices[self] = KeysOfFirst(idx - 1)
        /\ Len(results) = idx - 1
        /\ Cardinality(DuplicateErrors(results))
              = Cardinality({ i \in 1..(idx - 1) : Keyed(invoices[i]) })
                   - Cardinality(KeysOfFirst(idx - 1))

\* the same count in the report of the finished batch
SeenReport ==
    pc = "done" =>
        Cardinality(DuplicateErrors(report[1].results))
           = Cardinality({ i \in 1..Len(invoices) : Keyed(invoices[i]) })
                - Cardinality(KeysOfFirst(Len(invoices)))

\* the seen set is empty when the loop is entered and only grows inside it
SeenMove ==
    /\ pc # "loop" /\ pc' = "loop" => seen_invoices'[self'] = {}
    /\ pc = "loop" /\ pc' = "loop" =>
          /\ self' = self
          /\ seen_invoices[self] \subseteq seen_invoices'[self]

\* C22: inside a validate_batch call, after the first k invoices, the seen
\* set is exactly the set of composite keys of those of the first k
\* invoices that have invoice_number, seller_name and invoice_date present;
\* the set is empty right after the reset, only grows during the batch, and
\* the 'duplicate' errors of the batch number the keyed invoices minus the
\* distinct keys.
C22_SeenSetIsKeysOfPrefix ==
    /\ []SeenState
    /\ []SeenReport
    /\ [][SeenMove]_vars

\* inside a call, past the last invoice of a full batch in which two
\* invoices have the same key: the set holds fewer keys than there are keyed
\* invoices, and an invoice was flagged
C22_Witness ==
    /\ pc = "loop"
    /\ idx = MaxBatch + 1
    /\ Len(invoices) = MaxBatch
    /\ \E i \in 1..MaxBatch, j \in 1..MaxBatch :
          /\ i < j
          /\ Keyed(invoices[i])
          /\ Keyed(invoices[j])
          /\ CompositeKey(invoices[i]) = CompositeKey(invoices[j])
    /\ Cardinality(seen_invoices[self])
          < Cardinality({ i \in 1..MaxBatch : Keyed(invoices[i]) })
    /\ Cardinality(DuplicateErrors(results)) >= 1

--------------------------------------------------------------------------
\* two invoices agree in the three fields of the duplicate key
SameTriple(a, b) ==
    /\ a.invoice_number = b.invoice_number
    /\ a.seller_name = b.seller_name
    /\ a.invoice_date = b.invoice_date

\* C23: an invoice is flagged 'duplicate' only if an earlier invoice of the
\* batch has the same invoice_number, the same seller_name and the same
\* invoice_date; invoices that differ in one of the three fields, also by
\* a field that holds the separator '|', are never duplicates of each
\* other.
C23_KeyIdentifiesTriple ==
    \A i \in 1..Len(Shown) :
        HasRule(Shown[i], "duplicate") =>
            \E j \in 1..(i - 1) : SameTriple(invoices[j], invoices[i])

--------------------------------------------------------------------------
\* the result carries the format error of a negative amount field
HasNegativeError(result, field) ==
    \E j \in 1..Len(result.errors) :
        /\ result.errors[j].rule = "format"
        /\ Split(result.errors[j].message)[1] = field
        /\ Split(result.errors[j].message)[3] = "negative:"

\* the line totals of an invoice added up, in cents
LineTotalCents(invoice) ==
    SumOver([j \in 1..Len(invoice.line_items) |->
                invoice.line_items[j].line_total],
            1..Len(invoice.line_items))

====
